---------------------------- MODULE Spec2Model ----------------------------
(***************************************************************************)
(* Escrow order state machines of the three contracts of the repository:   *)
(*   - the CosmWasm Fusion+ contract  (contracts/cosmos/src/lib.rs),        *)
(*   - the NEAR Fusion+ contract      (contracts/near/src/lib.rs),          *)
(*   - the NEAR HTLC contract         (contracts/near/src/lib_standalone.rs)*)
(* Every handler is one action; a call that returns an error (Cosmos) or   *)
(* panics (NEAR) leaves the contract state as it was and is observable     *)
(* only through the history variable `last`.                               *)
(*                                                                         *)
(* Rust strings are modelled as tuples of ASCII codes, so that length,     *)
(* hex validation, hex encoding/decoding and case folding are computed.    *)
(* Order fields that no handler reads (timelocks, source_chain_id,         *)
(* created_at, the destination fields) are left out of the order records.  *)
(***************************************************************************)
EXTENDS Integers, Sequences, FiniteSets, TLC

VARIABLES
    deployed,              \* which contract this behaviour runs
    block_time,            \* Cosmos: env.block.time (seconds)
    block_height,          \* NEAR: env::block_height()
    cw_config,             \* Cosmos CONFIG: [admin, min_safety_deposit_bps]
    cw_orders,             \* Cosmos ORDERS: map order_hash -> FusionPlusOrder
    cw_resolvers,          \* Cosmos AUTHORIZED_RESOLVERS: keys stored (value is always true)
    fn_orders,             \* NEAR Fusion self.orders
    fn_resolvers,          \* NEAR Fusion self.authorized_resolvers
    fn_owner,              \* NEAR Fusion self.owner
    fn_bps,                \* NEAR Fusion self.min_safety_deposit_bps
    ht_orders,             \* NEAR HTLC self.orders
    ht_resolvers,          \* NEAR HTLC self.authorized_resolvers
    ht_owner,              \* NEAR HTLC self.owner
    ht_resolver_count,     \* NEAR HTLC self.resolver_count
    paid,                  \* history: per order, value transferred out so far, by role
    last                   \* history: the last call and its outcome

vars == <<deployed, block_time, block_height, cw_config, cw_orders, cw_resolvers,
          fn_orders, fn_resolvers, fn_owner, fn_bps,
          ht_orders, ht_resolvers, ht_owner, ht_resolver_count, paid, last>>

cw_vars == <<cw_config, cw_orders, cw_resolvers, block_time>>
fn_vars == <<fn_orders, fn_resolvers, fn_owner, fn_bps>>
ht_vars == <<ht_orders, ht_resolvers, ht_owner, ht_resolver_count>>

----------------------------------------------------------------------------
(* Bounds of the model *)

\* Chain time (Cosmos seconds) runs over 0..MaxTime.
MaxTime == 2
\* The unsigned 128-bit range of Uint128, scaled to the model's integers.
U128_MAX == 400000
\* How many times a payout method that keeps no record of having paid is called per order.
MaxPayoutCalls == 2

(* Program constants *)
BPS_DENOMINATOR == 10000
DEFAULT_BPS == 500
MAX_BPS == 10000
HASHLOCK_LEN == 64
DEFAULT_LIMIT == 30
MAX_LIMIT == 100
CANCEL_HEIGHT == 1000000
HTLC_DEPOSIT_PERCENT == 10

Addrs == {"alice", "bob", "carol"}
\* All order keys of the model, and the keys the calls of the main specifications use.
OrderIds == {"o1", "o10", "o2", "o3", "o4"}
MainIds == {"o1"}
PairIds == {"o1", "o2"}
TripleIds == {"o1", "o2", "o3"}

----------------------------------------------------------------------------
(* Strings, hex and SHA-256 *)

Repeat(c, n) == [i \in 1..n |-> c]

\* char::is_ascii_hexdigit
IsAsciiHexdigit(c) == c \in (48..57) \cup (65..70) \cup (97..102)

\* str::to_lowercase on ASCII
ToLowercase(s) == [i \in DOMAIN s |-> IF s[i] \in 65..90 THEN s[i] + 32 ELSE s[i]]

\* The upper-case spelling of a string (used to build inputs only).
ToUppercase(s) == [i \in DOMAIN s |-> IF s[i] \in 97..122 THEN s[i] - 32 ELSE s[i]]

HexDigit(n) == IF n < 10 THEN 48 + n ELSE 87 + n

\* hex::encode: two lower-case hex digits per byte
HexEncode(bytes) ==
    [i \in 1..(2 * Len(bytes)) |->
        IF i % 2 = 1 THEN HexDigit(bytes[(i + 1) \div 2] \div 16)
                     ELSE HexDigit(bytes[i \div 2] % 16)]

HexVal(c) == IF c \in 48..57 THEN c - 48
             ELSE IF c \in 65..70 THEN c - 55
             ELSE c - 87

\* hex::decode succeeds on an even number of hex digits of either case
HexDecodable(s) == Len(s) % 2 = 0 /\ \A i \in DOMAIN s : IsAsciiHexdigit(s[i])

HexDecode(s) == [i \in 1..(Len(s) \div 2) |-> 16 * HexVal(s[2 * i - 1]) + HexVal(s[2 * i])]

\* Preimages: the strings "hello" and "wrong" (Cosmos hashes preimage.as_bytes()), and
\* the 32-byte secrets 1234567890abcdef.. and fedcba0987654321.. of the NEAR tests
\* (NEAR hashes the hex-decoded preimage).
HelloBytes == <<104, 101, 108, 108, 111>>
WrongBytes == <<119, 114, 111, 110, 103>>
Secret1Bytes == <<18, 52, 86, 120, 144, 171, 205, 239, 18, 52, 86, 120, 144, 171, 205, 239,
                  18, 52, 86, 120, 144, 171, 205, 239, 18, 52, 86, 120, 144, 171, 205, 239>>
Secret2Bytes == <<254, 220, 186, 9, 135, 101, 67, 33, 254, 220, 186, 9, 135, 101, 67, 33,
                  254, 220, 186, 9, 135, 101, 67, 33, 254, 220, 186, 9, 135, 101, 67, 33>>

\* SHA-256, as the table of its values on the preimages above.
Sha256(bytes) ==
    CASE bytes = HelloBytes ->
           <<44, 242, 77, 186, 95, 176, 163, 14, 38, 232, 59, 42, 197, 185, 226, 158,
             27, 22, 30, 92, 31, 167, 66, 94, 115, 4, 51, 98, 147, 139, 152, 36>>
      [] bytes = WrongBytes ->
           <<136, 16, 173, 88, 30, 89, 242, 188, 57, 40, 178, 97, 112, 122, 113, 48,
             143, 126, 19, 158, 176, 72, 32, 54, 109, 196, 213, 193, 141, 152, 2, 37>>
      [] bytes = Secret1Bytes ->
           <<183, 224, 96, 166, 11, 183, 168, 47, 83, 106, 115, 193, 123, 222, 55, 161,
             182, 207, 87, 105, 238, 74, 131, 37, 191, 247, 108, 85, 169, 91, 106, 164>>
      [] bytes = Secret2Bytes ->
           <<162, 247, 136, 68, 206, 242, 87, 131, 247, 27, 221, 43, 58, 7, 241, 251,
             10, 117, 58, 55, 37, 129, 44, 241, 207, 234, 155, 226, 212, 43, 195, 114>>

\* Option<String>
None == [some |-> FALSE, val |-> <<>>]
Some(s) == [some |-> TRUE, val |-> s]

\* Option<AccountId>
NoAccount == "none"

----------------------------------------------------------------------------
(* History variables *)

\* The fields an error carries besides its name (none for most errors).
NoDetail == <<>>

NoCall == [op |-> "none", sender |-> "", id |-> "", res |-> "Ok", msgs |-> <<>>,
           detail |-> NoDetail]

Call(op, sender, id, res, msgs) ==
    [op |-> op, sender |-> sender, id |-> id, res |-> res, msgs |-> msgs,
     detail |-> NoDetail]

\* A transfer instruction: BankMsg::Send (Cosmos) or Promise::transfer (NEAR).
Send(to, amount) == [to |-> to, amount |-> amount]

RECURSIVE SumAmounts(_)
SumAmounts(msgs) == IF msgs = <<>> THEN 0 ELSE Head(msgs).amount + SumAmounts(Tail(msgs))

RECURSIVE SumTo(_, _)
SumTo(msgs, to) ==
    IF msgs = <<>> THEN 0
    ELSE (IF Head(msgs).to = to THEN Head(msgs).amount ELSE 0) + SumTo(Tail(msgs), to)

NoPaid == [id \in OrderIds |-> [total |-> 0, maker |-> 0, resolver |-> 0, calls |-> 0]]

\* The transfers of a call are added to the order's running totals.
Pay(id, to_maker, to_resolver) ==
    [paid EXCEPT ![id] = [total |-> @.total + to_maker + to_resolver,
                          maker |-> @.maker + to_maker,
                          resolver |-> @.resolver + to_resolver,
                          calls |-> @.calls + 1]]

----------------------------------------------------------------------------
(* The Cosmos contract: contracts/cosmos/src/lib.rs *)

\* Uint128::checked_mul / checked_add: an error when the result leaves the range.
CheckedMulOk(a, b) == a * b <= U128_MAX
\* A variant of the addition that never reports an overflow.
CheckedAddOk_Unchecked(a, b) == TRUE
CheckedAddOk(a, b) == a + b <= U128_MAX

\* A variant of the required deposit that rounds up.
RequiredSafetyDeposit_RoundUp(amount, bps) ==
    (amount * bps + BPS_DENOMINATOR - 1) \div BPS_DENOMINATOR

\* amount.checked_mul(bps).checked_div(10000)
RequiredSafetyDeposit(amount, bps) == (amount * bps) \div BPS_DENOMINATOR

\* A variant of the hashlock validation that tests the length alone.
CwValidHashlock_LengthOnly(hashlock) == Len(hashlock) = HASHLOCK_LEN

\* hashlock.len() != 64 || !hashlock.chars().all(|c| c.is_ascii_hexdigit())
CwValidHashlock(hashlock) ==
    /\ Len(hashlock) = HASHLOCK_LEN
    /\ \A i \in DOMAIN hashlock : IsAsciiHexdigit(hashlock[i])

\* A variant of validate_preimage that compares the two hex strings as they are.
validate_preimage_CaseSensitive(preimage, hashlock) ==
    HexEncode(Sha256(preimage)) = hashlock

\* validate_preimage: hex(sha256(preimage)) equals the hashlock, both lower-cased
validate_preimage(preimage, hashlock) ==
    ToLowercase(HexEncode(Sha256(preimage))) = ToLowercase(hashlock)

\* instantiate: admin is msg.admin or the sender; the sender becomes the first resolver.
CwInstantiateOk(bps) == ~(bps = 0 \/ bps > MAX_BPS)

\* A variant of execute_fusion_order that accepts only the exact total of funds.
CwExecuteResult_ExactFunds(sender, order_hash, hashlock, amount, resolver_fee, funds) ==
    IF sender \notin cw_resolvers THEN "UnauthorizedResolver"
    ELSE IF order_hash \in DOMAIN cw_orders THEN "OrderAlreadyExists"
    ELSE IF ~CwValidHashlock(hashlock) THEN "InvalidHashlock"
    ELSE IF ~CheckedMulOk(amount, cw_config.min_safety_deposit_bps) THEN "Overflow"
    ELSE IF ~CheckedAddOk(amount, resolver_fee) THEN "Overflow"
    ELSE IF ~CheckedAddOk(amount + resolver_fee,
                          RequiredSafetyDeposit(amount, cw_config.min_safety_deposit_bps))
         THEN "Overflow"
    ELSE IF funds # amount + resolver_fee
                    + RequiredSafetyDeposit(amount, cw_config.min_safety_deposit_bps)
         THEN "InsufficientSafetyDeposit"
    ELSE "Ok"

\* A variant of execute_fusion_order that looks the order up before it checks the sender.
CwExecuteResult_ExistsFirst(sender, order_hash, hashlock, amount, resolver_fee, funds) ==
    IF order_hash \in DOMAIN cw_orders THEN "OrderAlreadyExists"
    ELSE IF sender \notin cw_resolvers THEN "UnauthorizedResolver"
    ELSE IF ~CwValidHashlock(hashlock) THEN "InvalidHashlock"
    ELSE IF funds < amount + resolver_fee
                    + RequiredSafetyDeposit(amount, cw_config.min_safety_deposit_bps)
         THEN "InsufficientSafetyDeposit"
    ELSE "Ok"

\* The outcome of execute_fusion_order, in the order of the handler's checks.
CwExecuteResult(sender, order_hash, hashlock, amount, resolver_fee, funds) ==
    IF sender \notin cw_resolvers THEN "UnauthorizedResolver"
    ELSE IF order_hash \in DOMAIN cw_orders THEN "OrderAlreadyExists"
    ELSE IF ~CwValidHashlock(hashlock) THEN "InvalidHashlock"
    ELSE IF ~CheckedMulOk(amount, cw_config.min_safety_deposit_bps) THEN "Overflow"
    ELSE IF ~CheckedAddOk(amount, resolver_fee) THEN "Overflow"
    ELSE IF ~CheckedAddOk(amount + resolver_fee,
                          RequiredSafetyDeposit(amount, cw_config.min_safety_deposit_bps))
         THEN "Overflow"
    ELSE IF funds < amount + resolver_fee
                    + RequiredSafetyDeposit(amount, cw_config.min_safety_deposit_bps)
         THEN "InsufficientSafetyDeposit"
    ELSE "Ok"

\* InsufficientSafetyDeposit { expected: expected_total, actual: sent_funds }
CwDepositError(amount, resolver_fee, funds) ==
    [expected |-> amount + resolver_fee
                    + RequiredSafetyDeposit(amount, cw_config.min_safety_deposit_bps),
     actual |-> funds]

CwNewOrder(sender, hashlock, maker, amount, resolver_fee, timeout_seconds) ==
    [hashlock |-> hashlock,
     maker |-> maker,
     resolver |-> sender,
     amount |-> amount,
     resolver_fee |-> resolver_fee,
     safety_deposit |-> RequiredSafetyDeposit(amount, cw_config.min_safety_deposit_bps),
     status |-> "Matched",
     preimage |-> None,
     timeout |-> block_time + timeout_seconds]

execute_fusion_order(sender, order_hash, hashlock, maker, amount, resolver_fee, timeout_seconds, funds) ==
    LET res == CwExecuteResult(sender, order_hash, hashlock, amount, resolver_fee, funds) IN
    /\ deployed = "cosmos"
    /\ last' = [Call("execute_fusion_order", sender, order_hash, res, <<>>)
                   EXCEPT !.detail = IF res = "InsufficientSafetyDeposit"
                                     THEN CwDepositError(amount, resolver_fee, funds)
                                     ELSE NoDetail]
    /\ cw_orders' = IF res = "Ok"
                    THEN (order_hash :> CwNewOrder(sender, hashlock, maker, amount,
                                                   resolver_fee, timeout_seconds))
                         @@ cw_orders
                    ELSE cw_orders
    /\ UNCHANGED <<deployed, block_time, block_height, cw_config, cw_resolvers,
                   fn_vars, ht_vars, paid>>

\* A variant of claim_fusion_order that also requires the sender to be in the registry.
CwClaimResult_RegistryChecked(sender, order_hash, preimage) ==
    IF order_hash \notin DOMAIN cw_orders THEN "NotFound"
    ELSE IF sender \notin cw_resolvers THEN "UnauthorizedResolver"
    ELSE IF sender # cw_orders[order_hash].resolver THEN "Unauthorized"
    ELSE IF cw_orders[order_hash].status # "Matched" THEN "InvalidOrderStatus"
    ELSE IF block_time >= cw_orders[order_hash].timeout THEN "TimelockExpired"
    ELSE IF ~validate_preimage(preimage, cw_orders[order_hash].hashlock) THEN "InvalidPreimage"
    ELSE "Ok"

\* A variant of claim_fusion_order that checks the time before the status.
CwClaimResult_TimeFirst(sender, order_hash, preimage) ==
    IF order_hash \notin DOMAIN cw_orders THEN "NotFound"
    ELSE IF sender # cw_orders[order_hash].resolver THEN "Unauthorized"
    ELSE IF block_time >= cw_orders[order_hash].timeout THEN "TimelockExpired"
    ELSE IF cw_orders[order_hash].status # "Matched" THEN "InvalidOrderStatus"
    ELSE IF ~validate_preimage(preimage, cw_orders[order_hash].hashlock) THEN "InvalidPreimage"
    ELSE "Ok"

\* A variant of claim_fusion_order without the status check.
CwClaimResult_NoStatusCheck(sender, order_hash, preimage) ==
    IF order_hash \notin DOMAIN cw_orders THEN "NotFound"
    ELSE IF sender # cw_orders[order_hash].resolver THEN "Unauthorized"
    ELSE IF block_time >= cw_orders[order_hash].timeout THEN "TimelockExpired"
    ELSE IF ~validate_preimage(preimage, cw_orders[order_hash].hashlock) THEN "InvalidPreimage"
    ELSE "Ok"

\* The outcome of claim_fusion_order, in the order of the handler's checks.
CwClaimResult(sender, order_hash, preimage) ==
    IF order_hash \notin DOMAIN cw_orders THEN "NotFound"
    ELSE IF sender # cw_orders[order_hash].resolver THEN "Unauthorized"
    ELSE IF cw_orders[order_hash].status # "Matched" THEN "InvalidOrderStatus"
    ELSE IF block_time >= cw_orders[order_hash].timeout THEN "TimelockExpired"
    ELSE IF ~validate_preimage(preimage, cw_orders[order_hash].hashlock) THEN "InvalidPreimage"
    ELSE "Ok"

\* A variant of the claim's messages that sends zero-valued transfers too.
CwClaimMessages_ZeroSent(order) ==
    <<Send(order.maker, order.amount), Send(order.resolver, order.resolver_fee),
      Send(order.resolver, order.safety_deposit)>>

\* The bank messages of a claim: one per non-zero component.
CwClaimMessages(order) ==
    (IF order.amount # 0 THEN <<Send(order.maker, order.amount)>> ELSE <<>>)
    \o (IF order.resolver_fee # 0 THEN <<Send(order.resolver, order.resolver_fee)>> ELSE <<>>)
    \o (IF order.safety_deposit # 0 THEN <<Send(order.resolver, order.safety_deposit)>>
        ELSE <<>>)

\* A variant of the claim's write that clears the safety deposit it pays out.
CwClaimedOrder_DepositCleared(order, preimage) ==
    [order EXCEPT !.status = "Claimed", !.preimage = Some(preimage), !.safety_deposit = 0]

\* The order a claim saves: order.status = Claimed; order.preimage = Some(preimage)
CwClaimedOrder(order, preimage) ==
    [order EXCEPT !.status = "Claimed", !.preimage = Some(preimage)]

\* A variant of the claim's write that marks every Matched order with the same
\* hashlock as claimed.
CwOrdersAfterClaim_SameHashlock(order_hash, preimage) ==
    [id \in DOMAIN cw_orders |->
        IF /\ cw_orders[id].hashlock = cw_orders[order_hash].hashlock
           /\ cw_orders[id].status = "Matched"
        THEN CwClaimedOrder(cw_orders[id], preimage)
        ELSE cw_orders[id]]

\* ORDERS.save(deps.storage, order_hash.clone(), &order) in claim_fusion_order
CwOrdersAfterClaim(order_hash, preimage) ==
    [cw_orders EXCEPT ![order_hash] = CwClaimedOrder(@, preimage)]

claim_fusion_order(sender, order_hash, preimage) ==
    LET res == CwClaimResult(sender, order_hash, preimage)
        msgs == IF res = "Ok" THEN CwClaimMessages(cw_orders[order_hash]) ELSE <<>> IN
    /\ deployed = "cosmos"
    /\ last' = Call("claim_fusion_order", sender, order_hash, res, msgs)
    /\ cw_orders' = IF res = "Ok"
                    THEN CwOrdersAfterClaim(order_hash, preimage)
                    ELSE cw_orders
    /\ paid' = IF res = "Ok"
               THEN Pay(order_hash, SumTo(msgs, cw_orders[order_hash].maker),
                        SumAmounts(msgs) - SumTo(msgs, cw_orders[order_hash].maker))
               ELSE paid
    /\ UNCHANGED <<deployed, block_time, block_height, cw_config, cw_resolvers,
                   fn_vars, ht_vars>>

\* A variant of refund_order that checks the status before the time.
CwRefundResult_StatusFirst(sender, order_hash) ==
    IF order_hash \notin DOMAIN cw_orders THEN "NotFound"
    ELSE IF cw_orders[order_hash].status = "Claimed" THEN "OrderAlreadyClaimed"
    ELSE IF cw_orders[order_hash].status = "Refunded" THEN "OrderAlreadyRefunded"
    ELSE IF block_time < cw_orders[order_hash].timeout THEN "TimelockNotExpired"
    ELSE IF sender # cw_orders[order_hash].maker /\ sender # cw_orders[order_hash].resolver
         THEN "Unauthorized"
    ELSE "Ok"

\* A variant of refund_order without the checks of the order's status.
CwRefundResult_NoStatusCheck(sender, order_hash) ==
    IF order_hash \notin DOMAIN cw_orders THEN "NotFound"
    ELSE IF block_time < cw_orders[order_hash].timeout THEN "TimelockNotExpired"
    ELSE IF sender # cw_orders[order_hash].maker /\ sender # cw_orders[order_hash].resolver
         THEN "Unauthorized"
    ELSE "Ok"

\* A variant of refund_order that first requires the sender to be in the registry.
CwRefundResult_RegistryChecked(sender, order_hash) ==
    IF sender \notin cw_resolvers THEN "UnauthorizedResolver"
    ELSE IF order_hash \notin DOMAIN cw_orders THEN "NotFound"
    ELSE IF block_time < cw_orders[order_hash].timeout THEN "TimelockNotExpired"
    ELSE IF cw_orders[order_hash].status = "Claimed" THEN "OrderAlreadyClaimed"
    ELSE IF cw_orders[order_hash].status = "Refunded" THEN "OrderAlreadyRefunded"
    ELSE IF sender # cw_orders[order_hash].maker /\ sender # cw_orders[order_hash].resolver
         THEN "Unauthorized"
    ELSE "Ok"

\* The outcome of refund_order, in the order of the handler's checks.
CwRefundResult(sender, order_hash) ==
    IF order_hash \notin DOMAIN cw_orders THEN "NotFound"
    ELSE IF block_time < cw_orders[order_hash].timeout THEN "TimelockNotExpired"
    ELSE IF cw_orders[order_hash].status = "Claimed" THEN "OrderAlreadyClaimed"
    ELSE IF cw_orders[order_hash].status = "Refunded" THEN "OrderAlreadyRefunded"
    ELSE IF sender # cw_orders[order_hash].maker /\ sender # cw_orders[order_hash].resolver
         THEN "Unauthorized"
    ELSE IF ~CheckedAddOk(cw_orders[order_hash].amount, cw_orders[order_hash].resolver_fee)
         THEN "Overflow"
    ELSE IF ~CheckedAddOk(cw_orders[order_hash].amount + cw_orders[order_hash].resolver_fee,
                          cw_orders[order_hash].safety_deposit)
         THEN "Overflow"
    ELSE "Ok"

\* A variant of the refund that returns amount + resolver_fee to the maker and the
\* safety deposit to the resolver.
CwRefundMessages_Split(order) ==
    <<Send(order.maker, order.amount + order.resolver_fee),
      Send(order.resolver, order.safety_deposit)>>

\* The single bank message of a refund: everything to the resolver.
CwRefundMessages(order) ==
    <<Send(order.resolver, order.amount + order.resolver_fee + order.safety_deposit)>>

\* A variant of refund_order that saves the order before it checks the sender.
CwRefundSaved_BeforeAuth(res) == res \in {"Ok", "Overflow", "Unauthorized"}

\* Whether refund_order has written the order to deps.storage when it returns res: the
\* write (ORDERS.save) comes after the checks of time, status and sender and before
\* the checked additions of the refund amount. The write is kept whatever the handler
\* returns, so that what a failed call leaves behind is judged on the handler itself.
CwRefundSaved(res) == res \in {"Ok", "Overflow"}

refund_order(sender, order_hash) ==
    LET res == CwRefundResult(sender, order_hash)
        msgs == IF res = "Ok" THEN CwRefundMessages(cw_orders[order_hash]) ELSE <<>> IN
    /\ deployed = "cosmos"
    /\ last' = Call("refund_order", sender, order_hash, res, msgs)
    /\ cw_orders' = IF CwRefundSaved(res)
                    THEN [cw_orders EXCEPT ![order_hash].status = "Refunded"]
                    ELSE cw_orders
    /\ paid' = IF res = "Ok" THEN Pay(order_hash, 0, SumAmounts(msgs)) ELSE paid
    /\ UNCHANGED <<deployed, block_time, block_height, cw_config, cw_resolvers,
                   fn_vars, ht_vars>>

\* A variant of the registry's check that lets every authorized resolver change it.
CwRegistryResult_AnyResolver(sender) ==
    IF sender # cw_config.admin /\ sender \notin cw_resolvers THEN "Unauthorized" ELSE "Ok"

\* The check of add_resolver and remove_resolver: info.sender != config.admin
CwRegistryResult(sender) ==
    IF sender # cw_config.admin THEN "Unauthorized" ELSE "Ok"

cw_add_resolver(sender, resolver) ==
    LET res == CwRegistryResult(sender) IN
    /\ deployed = "cosmos"
    /\ last' = Call("add_resolver", sender, resolver, res, <<>>)
    /\ cw_resolvers' = IF res = "Ok" THEN cw_resolvers \cup {resolver} ELSE cw_resolvers
    /\ UNCHANGED <<deployed, block_time, block_height, cw_config, cw_orders,
                   fn_vars, ht_vars, paid>>

cw_remove_resolver(sender, resolver) ==
    LET res == CwRegistryResult(sender) IN
    /\ deployed = "cosmos"
    /\ last' = Call("remove_resolver", sender, resolver, res, <<>>)
    /\ cw_resolvers' = IF res = "Ok" THEN cw_resolvers \ {resolver} ELSE cw_resolvers
    /\ UNCHANGED <<deployed, block_time, block_height, cw_config, cw_orders,
                   fn_vars, ht_vars, paid>>

\* update_config: admin and min_safety_deposit_bps are Option arguments
\* (NoAccount and -1 stand for None).
\* A variant of update_config that accepts a ratio of zero.
CwUpdateResult_ZeroAccepted(sender, bps) ==
    IF sender # cw_config.admin THEN "Unauthorized"
    ELSE IF bps # -1 /\ bps > MAX_BPS THEN "Std"
    ELSE "Ok"

\* The outcome of update_config, in the order of the handler's checks.
CwUpdateResult(sender, bps) ==
    IF sender # cw_config.admin THEN "Unauthorized"
    ELSE IF bps # -1 /\ (bps = 0 \/ bps > MAX_BPS) THEN "Std"
    ELSE "Ok"

update_config(sender, admin, bps) ==
    LET res == CwUpdateResult(sender, bps) IN
    /\ deployed = "cosmos"
    /\ last' = [Call("update_config", sender, "", res, <<>>)
                   EXCEPT !.detail = [admin |-> admin]]
    /\ cw_config' = IF res = "Ok"
                    THEN [admin |-> IF admin # NoAccount THEN admin ELSE cw_config.admin,
                          min_safety_deposit_bps |->
                              IF bps # -1 THEN bps ELSE cw_config.min_safety_deposit_bps]
                    ELSE cw_config
    /\ UNCHANGED <<deployed, block_time, block_height, cw_orders, cw_resolvers,
                   fn_vars, ht_vars, paid>>

\* The bytes of the storage keys and cursors used: order hashes and addresses.
KeyBytes(key) ==
    CASE key = "o0" -> <<111, 48>>
      [] key = "o1" -> <<111, 49>>
      [] key = "o10" -> <<111, 49, 48>>
      [] key = "o11" -> <<111, 49, 49>>
      [] key = "o2" -> <<111, 50>>
      [] key = "o3" -> <<111, 51>>
      [] key = "o4" -> <<111, 52>>
      [] key = "alice" -> <<97, 108, 105, 99, 101>>
      [] key = "bob" -> <<98, 111, 98>>
      [] key = "carol" -> <<99, 97, 114, 111, 108>>

\* The order of storage keys: byte strings compared lexicographically.
RECURSIVE BytesLess(_, _)
BytesLess(a, b) ==
    IF a = <<>> THEN b # <<>>
    ELSE IF b = <<>> THEN FALSE
    ELSE IF Head(a) # Head(b) THEN Head(a) < Head(b)
    ELSE BytesLess(Tail(a), Tail(b))

\* cosmwasm_std::Order::Ascending over a set of keys.
RECURSIVE Ascending(_)
Ascending(keys) ==
    IF keys = {} THEN <<>>
    ELSE LET first == CHOOSE k \in keys :
                          \A j \in keys \ {k} : BytesLess(KeyBytes(k), KeyBytes(j))
         IN <<first>> \o Ascending(keys \ {first})

Min(a, b) == IF a <= b THEN a ELSE b

\* limit.unwrap_or(30).min(100)
QueryLimit(limit) == Min(IF limit.some THEN limit.val ELSE DEFAULT_LIMIT, MAX_LIMIT)

\* .take(limit)
Take(seq, n) == SubSeq(seq, 1, Min(n, Len(seq)))

\* A variant of the range whose lower bound includes the cursor.
CwOrdersRange_Inclusive(start_after) ==
    Ascending({k \in DOMAIN cw_orders :
                  \/ ~start_after.some
                  \/ ~BytesLess(KeyBytes(k), KeyBytes(start_after.val))})

\* ORDERS.range(storage, start.map(Bound::exclusive), None, Order::Ascending)
CwOrdersRange(start_after) ==
    Ascending({k \in DOMAIN cw_orders :
                  \/ ~start_after.some
                  \/ BytesLess(KeyBytes(start_after.val), KeyBytes(k))})

\* The orders of ListOrdersResponse, each given by its order_hash: the range is cut
\* to the limit by take, and what is left goes through the status filter.
ListOrdersResponse(status, start_after, limit) ==
    SelectSeq(Take(CwOrdersRange(start_after), QueryLimit(limit)),
              LAMBDA k : ~status.some \/ cw_orders[k].status = status.val)

\* The ListOrders query: reads the storage and changes nothing.
query_list_orders(status, start_after, limit) ==
    /\ deployed = "cosmos"
    /\ last' = [Call("list_orders", "", "", "Ok", <<>>)
                   EXCEPT !.detail = [status |-> status, start_after |-> start_after,
                                      limit |-> limit,
                                      orders |-> ListOrdersResponse(status, start_after,
                                                                    limit)]]
    /\ UNCHANGED <<deployed, block_time, block_height, cw_config, cw_orders, cw_resolvers,
                   fn_vars, ht_vars, paid>>

\* IsAuthorizedResolver: AUTHORIZED_RESOLVERS.may_load(addr).unwrap_or(false)
query_is_authorized_resolver(address) == address \in cw_resolvers

\* AUTHORIZED_RESOLVERS.range(storage, start.map(Bound::exclusive), None, Ascending)
CwResolversRange(start_after) ==
    Ascending({a \in cw_resolvers :
                  \/ ~start_after.some
                  \/ BytesLess(KeyBytes(start_after.val), KeyBytes(a))})

\* A variant of ListResolvers that ignores the limit.
ListResolversResponse_Unlimited(start_after, limit) == CwResolversRange(start_after)

\* The resolvers of ListResolversResponse.
ListResolversResponse(start_after, limit) ==
    Take(CwResolversRange(start_after), QueryLimit(limit))

\* The ListResolvers query: reads the storage and changes nothing.
query_list_resolvers(start_after, limit) ==
    /\ deployed = "cosmos"
    /\ last' = [Call("list_resolvers", "", "", "Ok", <<>>)
                   EXCEPT !.detail = [start_after |-> start_after, limit |-> limit,
                                      resolvers |-> ListResolversResponse(start_after,
                                                                          limit)]]
    /\ UNCHANGED <<deployed, block_time, block_height, cw_config, cw_orders, cw_resolvers,
                   fn_vars, ht_vars, paid>>

\* The chain produces the next block: env.block.time grows.
cw_tick ==
    /\ deployed = "cosmos"
    /\ block_time < MaxTime
    /\ block_time' = block_time + 1
    /\ last' = NoCall
    /\ UNCHANGED <<deployed, block_height, cw_config, cw_orders, cw_resolvers,
                   fn_vars, ht_vars, paid>>

----------------------------------------------------------------------------
(* The NEAR Fusion+ contract: contracts/near/src/lib.rs *)

\* (amount.0 * self.min_safety_deposit_bps as u128) / 10000
FnSafetyDeposit(amount) == (amount * fn_bps) \div BPS_DENOMINATOR

\* assert_owner
fn_assert_owner(predecessor) == predecessor = fn_owner

fn_add_resolver(predecessor, resolver) ==
    LET res == IF ~fn_assert_owner(predecessor) THEN "Only owner" ELSE "Ok" IN
    /\ deployed = "fusion"
    /\ last' = Call("add_resolver", predecessor, resolver, res, <<>>)
    /\ fn_resolvers' = IF res = "Ok" THEN fn_resolvers \cup {resolver} ELSE fn_resolvers
    /\ UNCHANGED <<deployed, block_height, cw_vars, fn_orders, fn_owner, fn_bps, ht_vars, paid>>

fn_remove_resolver(predecessor, resolver) ==
    LET res == IF ~fn_assert_owner(predecessor) THEN "Only owner" ELSE "Ok" IN
    /\ deployed = "fusion"
    /\ last' = Call("remove_resolver", predecessor, resolver, res, <<>>)
    /\ fn_resolvers' = IF res = "Ok" THEN fn_resolvers \ {resolver} ELSE fn_resolvers
    /\ UNCHANGED <<deployed, block_height, cw_vars, fn_orders, fn_owner, fn_bps, ht_vars, paid>>

\* The authorization check of execute_fusion_order: the account looked up in the registry.
FnExecuteAuthorized(predecessor, resolver) == resolver \in fn_resolvers

\* A variant of execute_fusion_order without the lookup of the order_hash.
FnExecuteResult_NoExistsCheck(predecessor, order_hash, hashlock, resolver, amount, resolver_fee, attached) ==
    IF ~FnExecuteAuthorized(predecessor, resolver) THEN "Not a 1inch authorized resolver"
    ELSE IF ~(attached >= amount + resolver_fee) THEN "Insufficient deposit"
    ELSE IF ~(attached >= amount + resolver_fee + FnSafetyDeposit(amount))
         THEN "Insufficient safety deposit"
    ELSE IF ~(Len(hashlock) = HASHLOCK_LEN) THEN "Invalid hashlock format"
    ELSE "Ok"

\* The outcome of execute_fusion_order, in the order of the method's assertions.
FnExecuteResult(predecessor, order_hash, hashlock, resolver, amount, resolver_fee, attached) ==
    IF ~FnExecuteAuthorized(predecessor, resolver) THEN "Not a 1inch authorized resolver"
    ELSE IF order_hash \in DOMAIN fn_orders THEN "Order already exists"
    ELSE IF ~(attached >= amount + resolver_fee) THEN "Insufficient deposit"
    ELSE IF ~(attached >= amount + resolver_fee + FnSafetyDeposit(amount))
         THEN "Insufficient safety deposit"
    ELSE IF ~(Len(hashlock) = HASHLOCK_LEN) THEN "Invalid hashlock format"
    ELSE "Ok"

FnNewOrder(hashlock, maker, resolver, amount, resolver_fee) ==
    [hashlock |-> hashlock,
     maker |-> maker,
     resolver |-> resolver,
     amount |-> amount,
     resolver_fee |-> resolver_fee,
     safety_deposit |-> FnSafetyDeposit(amount),
     status |-> "Matched",
     preimage |-> None]

fn_execute_fusion_order(predecessor, order_hash, hashlock, maker, resolver, amount, resolver_fee, attached) ==
    LET res == FnExecuteResult(predecessor, order_hash, hashlock, resolver, amount,
                               resolver_fee, attached) IN
    /\ deployed = "fusion"
    /\ last' = Call("execute_fusion_order", predecessor, order_hash, res, <<>>)
    /\ fn_orders' = IF res = "Ok"
                    THEN (order_hash :> FnNewOrder(hashlock, maker, resolver, amount,
                                                   resolver_fee)) @@ fn_orders
                    ELSE fn_orders
    /\ UNCHANGED <<deployed, block_height, cw_vars, fn_resolvers, fn_owner, fn_bps,
                   ht_vars, paid>>

\* A variant of the NEAR preimage check without the comparison with the hashlock.
NearPreimageResult_NoHashCheck(preimage, hashlock, bad_length) ==
    IF ~(Len(preimage) = HASHLOCK_LEN) THEN bad_length
    ELSE IF ~HexDecodable(preimage) THEN "Invalid preimage hex"
    ELSE "Ok"

\* The preimage check shared by the two NEAR contracts: 64 characters, hex-decodable,
\* and hex::encode(sha256(bytes)) equal to the stored hashlock (assert_eq! on Strings).
\* Only the message of the length assertion differs between the two.
NearPreimageResult(preimage, hashlock, bad_length) ==
    IF ~(Len(preimage) = HASHLOCK_LEN) THEN bad_length
    ELSE IF ~HexDecodable(preimage) THEN "Invalid preimage hex"
    ELSE IF HexEncode(Sha256(HexDecode(preimage))) # hashlock
         THEN "Preimage doesn't match hashlock"
    ELSE "Ok"

\* The outcome of claim_fusion_order, in the order of the method's assertions.
FnClaimResult(predecessor, order_hash, preimage) ==
    IF order_hash \notin DOMAIN fn_orders THEN "Order not found"
    ELSE IF predecessor # fn_orders[order_hash].resolver THEN "Only resolver can claim"
    ELSE IF fn_orders[order_hash].status # "Matched" THEN "Order not claimable"
    ELSE NearPreimageResult(preimage, fn_orders[order_hash].hashlock,
                            "Invalid preimage format")

\* claim_fusion_order creates no Promise: it transfers nothing.
FnClaimMessages(order) == <<>>

fn_claim_fusion_order(predecessor, order_hash, preimage) ==
    LET res == FnClaimResult(predecessor, order_hash, preimage)
        msgs == IF res = "Ok" THEN FnClaimMessages(fn_orders[order_hash]) ELSE <<>> IN
    /\ deployed = "fusion"
    /\ last' = Call("claim_fusion_order", predecessor, order_hash, res, msgs)
    /\ fn_orders' = IF res = "Ok"
                    THEN [fn_orders EXCEPT ![order_hash].status = "Claimed",
                                           ![order_hash].preimage = Some(preimage)]
                    ELSE fn_orders
    /\ UNCHANGED <<deployed, block_height, cw_vars, fn_resolvers, fn_owner, fn_bps,
                   ht_vars, paid>>

\* A variant of the payout methods without the assertion on the order's status.
FnPayoutResult_AnyStatus(predecessor, order_hash, who) ==
    IF order_hash \notin DOMAIN fn_orders THEN "Order not found"
    ELSE IF predecessor # fn_orders[order_hash].resolver THEN "Only resolver can " \o who
    ELSE "Ok"

\* The outcome of transfer_to_maker and of claim_resolver_payment, in the order of
\* their assertions; who completes the message of the caller assertion.
FnPayoutResult(predecessor, order_hash, who) ==
    IF order_hash \notin DOMAIN fn_orders THEN "Order not found"
    ELSE IF predecessor # fn_orders[order_hash].resolver THEN "Only resolver can " \o who
    ELSE IF fn_orders[order_hash].status # "Claimed" THEN "Order not claimed yet"
    ELSE "Ok"

\* transfer_to_maker takes &self: it records nothing, and pays on every call.
fn_transfer_to_maker(predecessor, order_hash) ==
    LET res == FnPayoutResult(predecessor, order_hash, "transfer")
        msgs == IF res = "Ok"
                THEN <<Send(fn_orders[order_hash].maker, fn_orders[order_hash].amount)>>
                ELSE <<>> IN
    /\ deployed = "fusion"
    /\ paid[order_hash].calls < 2 * MaxPayoutCalls
    /\ last' = Call("transfer_to_maker", predecessor, order_hash, res, msgs)
    /\ paid' = IF res = "Ok" THEN Pay(order_hash, SumAmounts(msgs), 0) ELSE paid
    /\ UNCHANGED <<deployed, block_height, cw_vars, fn_vars, ht_vars>>

\* claim_resolver_payment changes no field of the order either.
fn_claim_resolver_payment(predecessor, order_hash) ==
    LET res == FnPayoutResult(predecessor, order_hash, "claim payment")
        msgs == IF res = "Ok"
                THEN <<Send(fn_orders[order_hash].resolver,
                            fn_orders[order_hash].resolver_fee
                                + fn_orders[order_hash].safety_deposit)>>
                ELSE <<>> IN
    /\ deployed = "fusion"
    /\ paid[order_hash].calls < 2 * MaxPayoutCalls
    /\ last' = Call("claim_resolver_payment", predecessor, order_hash, res, msgs)
    /\ paid' = IF res = "Ok" THEN Pay(order_hash, 0, SumAmounts(msgs)) ELSE paid
    /\ UNCHANGED <<deployed, block_height, cw_vars, fn_vars, ht_vars>>

\* The timelock check of cancel_fusion_order: current_block > 1000000.
FnCancelTimelockReached == block_height > CANCEL_HEIGHT

\* A variant of cancel_fusion_order that any account may call.
FnCancelResult_AnyCaller(predecessor, order_hash) ==
    IF order_hash \notin DOMAIN fn_orders THEN "Order not found"
    ELSE IF fn_orders[order_hash].status # "Matched" THEN "Order not cancellable"
    ELSE IF ~FnCancelTimelockReached THEN "Cancellation timelock not reached"
    ELSE "Ok"

\* The outcome of cancel_fusion_order, in the order of the method's assertions.
FnCancelResult(predecessor, order_hash) ==
    IF order_hash \notin DOMAIN fn_orders THEN "Order not found"
    ELSE IF predecessor # fn_orders[order_hash].resolver THEN "Only resolver can cancel"
    ELSE IF fn_orders[order_hash].status # "Matched" THEN "Order not cancellable"
    ELSE IF ~FnCancelTimelockReached THEN "Cancellation timelock not reached"
    ELSE "Ok"

fn_cancel_fusion_order(predecessor, order_hash) ==
    LET res == FnCancelResult(predecessor, order_hash)
        msgs == IF res = "Ok"
                THEN <<Send(fn_orders[order_hash].resolver,
                            fn_orders[order_hash].amount + fn_orders[order_hash].resolver_fee
                                + fn_orders[order_hash].safety_deposit)>>
                ELSE <<>> IN
    /\ deployed = "fusion"
    /\ last' = Call("cancel_fusion_order", predecessor, order_hash, res, msgs)
    /\ fn_orders' = IF res = "Ok"
                    THEN [fn_orders EXCEPT ![order_hash].status = "Refunded"]
                    ELSE fn_orders
    /\ paid' = IF res = "Ok" THEN Pay(order_hash, 0, SumAmounts(msgs)) ELSE paid
    /\ UNCHANGED <<deployed, block_height, cw_vars, fn_resolvers, fn_owner, fn_bps, ht_vars>>

\* The chain produces the next block. The behaviours of this contract start one block
\* below the height its cancellation check compares with.
fn_tick ==
    /\ deployed = "fusion"
    /\ block_height < CANCEL_HEIGHT - 1 + MaxTime
    /\ block_height' = block_height + 1
    /\ last' = NoCall
    /\ UNCHANGED <<deployed, cw_vars, fn_vars, ht_vars, paid>>

----------------------------------------------------------------------------
(* The NEAR HTLC contract: contracts/near/src/lib_standalone.rs *)

ht_assert_owner(predecessor) == predecessor = ht_owner

\* A variant of add_resolver that counts every accepted call.
HtIsNewResolver_Always(resolver) == TRUE

\* self.authorized_resolvers.get(&resolver).is_none()
HtIsNewResolver(resolver) == resolver \notin ht_resolvers

ht_add_resolver(predecessor, resolver) ==
    LET res == IF ~ht_assert_owner(predecessor) THEN "Only owner" ELSE "Ok"
        fresh == HtIsNewResolver(resolver) IN
    /\ deployed = "htlc"
    /\ last' = Call("add_resolver", predecessor, resolver, res, <<>>)
    /\ ht_resolvers' = IF res = "Ok" /\ fresh THEN ht_resolvers \cup {resolver}
                       ELSE ht_resolvers
    /\ ht_resolver_count' = IF res = "Ok" /\ fresh THEN ht_resolver_count + 1
                            ELSE ht_resolver_count
    /\ UNCHANGED <<deployed, block_height, cw_vars, fn_vars, ht_orders, ht_owner, paid>>

ht_remove_resolver(predecessor, resolver) ==
    LET res == IF ~ht_assert_owner(predecessor) THEN "Only owner" ELSE "Ok"
        present == resolver \in ht_resolvers IN
    /\ deployed = "htlc"
    /\ last' = Call("remove_resolver", predecessor, resolver, res, <<>>)
    /\ ht_resolvers' = IF res = "Ok" THEN ht_resolvers \ {resolver} ELSE ht_resolvers
    /\ ht_resolver_count' = IF res = "Ok" /\ present
                            THEN (IF ht_resolver_count > 0 THEN ht_resolver_count - 1 ELSE 0)
                            ELSE ht_resolver_count
    /\ UNCHANGED <<deployed, block_height, cw_vars, fn_vars, ht_orders, ht_owner, paid>>

\* A variant of create_order that accepts a deposit equal to the resolver fee.
HtCreateResult_FeeOnly(order_id, hashlock, timelock, resolver_fee, attached) ==
    IF ~(attached >= resolver_fee) THEN "Insufficient deposit for resolver fee"
    ELSE IF ~(timelock > block_height) THEN "Timelock must be in the future"
    ELSE IF ~(Len(hashlock) = HASHLOCK_LEN) THEN "Hashlock must be 32 bytes (64 hex chars)"
    ELSE IF order_id \in DOMAIN ht_orders THEN "Order ID already exists"
    ELSE "Ok"

\* The outcome of create_order, in the order of the method's assertions.
HtCreateResult(order_id, hashlock, timelock, resolver_fee, attached) ==
    IF ~(attached > resolver_fee) THEN "Insufficient deposit for resolver fee"
    ELSE IF ~(timelock > block_height) THEN "Timelock must be in the future"
    ELSE IF ~(Len(hashlock) = HASHLOCK_LEN) THEN "Hashlock must be 32 bytes (64 hex chars)"
    ELSE IF order_id \in DOMAIN ht_orders THEN "Order ID already exists"
    ELSE "Ok"

HtNewOrder(predecessor, hashlock, timelock, resolver_fee, attached) ==
    [maker |-> predecessor,
     resolver |-> NoAccount,
     amount |-> attached - resolver_fee,
     hashlock |-> hashlock,
     timelock |-> timelock,
     resolver_fee |-> resolver_fee,
     safety_deposit |-> 0,
     is_claimed |-> FALSE,
     is_refunded |-> FALSE,
     preimage |-> None]

create_order(predecessor, order_id, hashlock, timelock, resolver_fee, attached) ==
    LET res == HtCreateResult(order_id, hashlock, timelock, resolver_fee, attached) IN
    /\ deployed = "htlc"
    /\ last' = Call("create_order", predecessor, order_id, res, <<>>)
    /\ ht_orders' = IF res = "Ok"
                    THEN (order_id :> HtNewOrder(predecessor, hashlock, timelock,
                                                 resolver_fee, attached)) @@ ht_orders
                    ELSE ht_orders
    /\ UNCHANGED <<deployed, block_height, cw_vars, fn_vars, ht_resolvers, ht_owner,
                   ht_resolver_count, paid>>

\* (order.amount.0 * 10) / 100
HtRequiredDeposit(amount) == (amount * HTLC_DEPOSIT_PERCENT) \div 100

\* A variant of match_order without the assertion that the order has no resolver.
HtMatchResult_Rematch(predecessor, order_id, attached) ==
    IF predecessor \notin ht_resolvers THEN "Not an authorized resolver"
    ELSE IF order_id \notin DOMAIN ht_orders THEN "Order not found"
    ELSE IF ~(~ht_orders[order_id].is_claimed /\ ~ht_orders[order_id].is_refunded)
         THEN "Order already settled"
    ELSE IF ~(block_height < ht_orders[order_id].timelock) THEN "Order expired"
    ELSE IF ~(attached >= HtRequiredDeposit(ht_orders[order_id].amount))
         THEN "Insufficient safety deposit"
    ELSE "Ok"

\* The outcome of match_order, in the order of the method's assertions.
HtMatchResult(predecessor, order_id, attached) ==
    IF predecessor \notin ht_resolvers THEN "Not an authorized resolver"
    ELSE IF order_id \notin DOMAIN ht_orders THEN "Order not found"
    ELSE IF ht_orders[order_id].resolver # NoAccount THEN "Order already matched"
    ELSE IF ~(~ht_orders[order_id].is_claimed /\ ~ht_orders[order_id].is_refunded)
         THEN "Order already settled"
    ELSE IF ~(block_height < ht_orders[order_id].timelock) THEN "Order expired"
    ELSE IF ~(attached >= HtRequiredDeposit(ht_orders[order_id].amount))
         THEN "Insufficient safety deposit"
    ELSE "Ok"

match_order(predecessor, order_id, attached) ==
    LET res == HtMatchResult(predecessor, order_id, attached) IN
    /\ deployed = "htlc"
    /\ last' = Call("match_order", predecessor, order_id, res, <<>>)
    /\ ht_orders' = IF res = "Ok"
                    THEN [ht_orders EXCEPT ![order_id].resolver = predecessor,
                                           ![order_id].safety_deposit = attached]
                    ELSE ht_orders
    /\ UNCHANGED <<deployed, block_height, cw_vars, fn_vars, ht_resolvers, ht_owner,
                   ht_resolver_count, paid>>

\* A variant of claim_order without the expiry assertion.
HtClaimResult_NoExpiry(predecessor, order_id, preimage) ==
    IF order_id \notin DOMAIN ht_orders THEN "Order not found"
    ELSE IF ht_orders[order_id].resolver = NoAccount THEN "unwrap on None"
    ELSE IF ht_orders[order_id].resolver # predecessor THEN "Not the resolver"
    ELSE IF ~(~ht_orders[order_id].is_claimed /\ ~ht_orders[order_id].is_refunded)
         THEN "Order already settled"
    ELSE NearPreimageResult(preimage, ht_orders[order_id].hashlock,
                            "Preimage must be 32 bytes (64 hex chars)")

\* The outcome of claim_order, in the order of the method's assertions
\* (order.resolver.as_ref().unwrap() panics on an order that was never matched).
HtClaimResult(predecessor, order_id, preimage) ==
    IF order_id \notin DOMAIN ht_orders THEN "Order not found"
    ELSE IF ht_orders[order_id].resolver = NoAccount THEN "unwrap on None"
    ELSE IF ht_orders[order_id].resolver # predecessor THEN "Not the resolver"
    ELSE IF ~(~ht_orders[order_id].is_claimed /\ ~ht_orders[order_id].is_refunded)
         THEN "Order already settled"
    ELSE IF ~(block_height < ht_orders[order_id].timelock) THEN "Order expired"
    ELSE NearPreimageResult(preimage, ht_orders[order_id].hashlock,
                            "Preimage must be 32 bytes (64 hex chars)")

\* The Promise of claim_order: one transfer, of amount + resolver_fee, to the caller.
HtClaimMessages(predecessor, order) ==
    <<Send(predecessor, order.amount + order.resolver_fee)>>

claim_order(predecessor, order_id, preimage) ==
    LET res == HtClaimResult(predecessor, order_id, preimage)
        msgs == IF res = "Ok" THEN HtClaimMessages(predecessor, ht_orders[order_id])
                ELSE <<>> IN
    /\ deployed = "htlc"
    /\ last' = Call("claim_order", predecessor, order_id, res, msgs)
    /\ ht_orders' = IF res = "Ok"
                    THEN [ht_orders EXCEPT ![order_id].is_claimed = TRUE,
                                           ![order_id].preimage = Some(preimage)]
                    ELSE ht_orders
    /\ paid' = IF res = "Ok" THEN Pay(order_id, 0, SumAmounts(msgs)) ELSE paid
    /\ UNCHANGED <<deployed, block_height, cw_vars, fn_vars, ht_resolvers, ht_owner,
                   ht_resolver_count>>

\* The outcome of cancel_order, in the order of the method's assertions.
HtCancelResult(predecessor, order_id) ==
    IF order_id \notin DOMAIN ht_orders THEN "Order not found"
    ELSE IF ht_orders[order_id].maker # predecessor THEN "Not the order maker"
    ELSE IF ~(~ht_orders[order_id].is_claimed /\ ~ht_orders[order_id].is_refunded)
         THEN "Order already settled"
    ELSE IF ~(block_height >= ht_orders[order_id].timelock) THEN "Timelock not yet expired"
    ELSE "Ok"

\* A variant of cancel_order that pays the maker only.
HtCancelMessages_MakerOnly(predecessor, order) ==
    <<Send(predecessor, order.amount + order.resolver_fee)>>

\* The Promises of cancel_order: amount + resolver_fee to the maker and, if the order
\* was matched, the safety deposit to its resolver.
HtCancelMessages(predecessor, order) ==
    <<Send(predecessor, order.amount + order.resolver_fee)>>
    \o (IF order.resolver # NoAccount THEN <<Send(order.resolver, order.safety_deposit)>>
        ELSE <<>>)

cancel_order(predecessor, order_id) ==
    LET res == HtCancelResult(predecessor, order_id)
        msgs == IF res = "Ok" THEN HtCancelMessages(predecessor, ht_orders[order_id])
                ELSE <<>> IN
    /\ deployed = "htlc"
    /\ last' = Call("cancel_order", predecessor, order_id, res, msgs)
    /\ ht_orders' = IF res = "Ok"
                    THEN [ht_orders EXCEPT ![order_id].is_refunded = TRUE]
                    ELSE ht_orders
    /\ paid' = IF res = "Ok"
               THEN Pay(order_id, Head(msgs).amount, SumAmounts(Tail(msgs)))
               ELSE paid
    /\ UNCHANGED <<deployed, block_height, cw_vars, fn_vars, ht_resolvers, ht_owner,
                   ht_resolver_count>>

\* The chain produces the next block.
ht_tick ==
    /\ deployed = "htlc"
    /\ block_height < MaxTime
    /\ block_height' = block_height + 1
    /\ last' = NoCall
    /\ UNCHANGED <<deployed, cw_vars, fn_vars, ht_vars, paid>>

----------------------------------------------------------------------------
(* Inputs of the calls *)

\* sha256("hello") in lower-case hex, computed as the Cosmos tests compute a hashlock.
HelloHash == HexEncode(Sha256(HelloBytes))
\* "invalid": too short to be a hashlock.
ShortHashlock == <<105, 110, 118, 97, 108, 105, 100>>
\* 64 characters, none of them a hex digit.
NonHexHashlock == Repeat(103, HASHLOCK_LEN)

\* The secrets of the NEAR tests as the 64-character hex strings passed as preimage,
\* and the hashlock of the first.
Secret1Hex == HexEncode(Secret1Bytes)
Secret2Hex == HexEncode(Secret2Bytes)
Secret1Hash == HexEncode(Sha256(Secret1Bytes))

\* Arguments of the Cosmos execute_fusion_order: accepted ones (all components
\* non-zero; a zero amount with an upper-case hashlock; all zero and no delay; a zero
\* fee and a deposit that rounds to zero) and rejected ones (hashlocks, overflow).
CwExecArgs ==
    { [hashlock |-> HelloHash, maker |-> "carol", amount |-> 30, resolver_fee |-> 5,
       timeout_seconds |-> 1],
      [hashlock |-> ToUppercase(HelloHash), maker |-> "carol", amount |-> 0,
       resolver_fee |-> 5, timeout_seconds |-> 2],
      [hashlock |-> HelloHash, maker |-> "carol", amount |-> 0, resolver_fee |-> 0,
       timeout_seconds |-> 0],
      [hashlock |-> HelloHash, maker |-> "bob", amount |-> 10, resolver_fee |-> 0,
       timeout_seconds |-> 1],
      [hashlock |-> ShortHashlock, maker |-> "carol", amount |-> 30, resolver_fee |-> 5,
       timeout_seconds |-> 1],
      [hashlock |-> NonHexHashlock, maker |-> "carol", amount |-> 30, resolver_fee |-> 5,
       timeout_seconds |-> 1],
      [hashlock |-> HelloHash, maker |-> "carol", amount |-> 50, resolver_fee |-> 5,
       timeout_seconds |-> 1],
      [hashlock |-> HelloHash, maker |-> "carol", amount |-> 30,
       resolver_fee |-> U128_MAX - 30, timeout_seconds |-> 1] }
CwFunds == {0, 35, 36, U128_MAX}
\* Arguments of ListOrders: no filter or a status; no cursor, a stored key or a
\* string that need not be a key; no limit or a small one.
ListStatuses == {None, Some("Matched"), Some("Claimed")}
ListCursors == {None, Some("o10"), Some("o11"), Some("o3")}
\* Arguments of ListResolvers, and the addresses the registry calls of the
\* specification of the registry name.
ResolverCursors == {None, Some("alice"), Some("bob")}
ResolverLimits == {None, Some(0), Some(1), Some(2)}
ListLimits == {None, Some(0), Some(2), Some(3)}
\* The one order template of the specification with several orders.
CwOrdersArgs ==
    { [hashlock |-> HelloHash, maker |-> "carol", amount |-> 30, resolver_fee |-> 5,
       timeout_seconds |-> 1] }
CwPreimages == {HelloBytes, WrongBytes}
CwRegistryArgs == {"bob"}
CwNewAdmins == {NoAccount, "bob"}
CwNewBps == {-1, 0, DEFAULT_BPS, MAX_BPS, MAX_BPS + 1}

\* Arguments of the NEAR Fusion execute_fusion_order: hashlocks of either case, a
\* hashlock of 64 non-hex characters, a short one; non-zero and zero amounts.
FnExecArgs ==
    { [hashlock |-> Secret1Hash, maker |-> "carol", amount |-> 20, resolver_fee |-> 5],
      [hashlock |-> ToUppercase(Secret1Hash), maker |-> "carol", amount |-> 0,
       resolver_fee |-> 0],
      [hashlock |-> NonHexHashlock, maker |-> "alice", amount |-> 20, resolver_fee |-> 0],
      [hashlock |-> ShortHashlock, maker |-> "carol", amount |-> 20, resolver_fee |-> 5] }
FnAttached == {0, 24, 25, 26, 100}
NearPreimages == {Secret1Hex, Secret2Hex, ToUppercase(Secret1Hex), ShortHashlock,
                  NonHexHashlock}
NearRegistryArgs == {"bob"}

\* Arguments of the NEAR HTLC create_order (the amount is attached - resolver_fee).
HtCreateArgs ==
    { [hashlock |-> Secret1Hash, timelock |-> 1, resolver_fee |-> 5, attached |-> 25],
      [hashlock |-> ToUppercase(Secret1Hash), timelock |-> 2, resolver_fee |-> 0,
       attached |-> 5],
      [hashlock |-> NonHexHashlock, timelock |-> 1, resolver_fee |-> 5, attached |-> 6],
      [hashlock |-> ShortHashlock, timelock |-> 1, resolver_fee |-> 5, attached |-> 25],
      [hashlock |-> Secret1Hash, timelock |-> 0, resolver_fee |-> 5, attached |-> 25],
      [hashlock |-> Secret1Hash, timelock |-> 1, resolver_fee |-> 5, attached |-> 5] }
HtMakers == {"alice", "carol"}
HtMatchAttached == {0, 1, 2, 3}

----------------------------------------------------------------------------
(* Specifications *)

\* instantiate, sent by alice with msg.admin = None or Some(bob) and
\* msg.min_safety_deposit_bps = None.
instantiate(sender, admin, bps) ==
    /\ CwInstantiateOk(bps)
    /\ cw_config = [admin |-> IF admin # NoAccount THEN admin ELSE sender,
                    min_safety_deposit_bps |-> bps]
    /\ cw_resolvers = {sender}

InitCosmos ==
    /\ deployed = "cosmos"
    /\ block_time = 0
    /\ block_height = 0
    /\ \E admin \in {NoAccount, "bob"} : instantiate("alice", admin, DEFAULT_BPS)
    /\ cw_orders = <<>>
    /\ fn_orders = <<>>
    /\ fn_resolvers = {}
    /\ fn_owner = NoAccount
    /\ fn_bps = 0
    /\ ht_orders = <<>>
    /\ ht_resolvers = {}
    /\ ht_owner = NoAccount
    /\ ht_resolver_count = 0
    /\ paid = NoPaid
    /\ last = NoCall

NextCosmos ==
    \/ \E sender \in Addrs, order_hash \in MainIds, a \in CwExecArgs, funds \in CwFunds :
          execute_fusion_order(sender, order_hash, a.hashlock, a.maker, a.amount,
                               a.resolver_fee, a.timeout_seconds, funds)
    \/ \E sender \in Addrs, order_hash \in MainIds, preimage \in CwPreimages :
          claim_fusion_order(sender, order_hash, preimage)
    \/ \E sender \in Addrs, order_hash \in MainIds : refund_order(sender, order_hash)
    \/ \E sender \in Addrs, resolver \in CwRegistryArgs : cw_add_resolver(sender, resolver)
    \/ \E sender \in Addrs, resolver \in CwRegistryArgs : cw_remove_resolver(sender, resolver)
    \/ \E sender \in Addrs, admin \in CwNewAdmins, bps \in CwNewBps :
          update_config(sender, admin, bps)
    \/ cw_tick

SpecCosmos == InitCosmos /\ [][NextCosmos]_vars

\* The Cosmos contract with two orders: alice, the instantiator, creates, claims
\* and refunds orders under either of two order ids, and as admin raises the deposit
\* ratio and changes the registry.
NextCosmosOrders ==
    \/ \E order_hash \in PairIds, a \in CwOrdersArgs :
          execute_fusion_order("alice", order_hash, a.hashlock, a.maker, a.amount,
                               a.resolver_fee, a.timeout_seconds, U128_MAX)
    \/ \E order_hash \in PairIds : claim_fusion_order("alice", order_hash, HelloBytes)
    \/ \E order_hash \in PairIds : refund_order("alice", order_hash)
    \/ \E resolver \in CwRegistryArgs : cw_add_resolver("alice", resolver)
    \/ \E resolver \in CwRegistryArgs : cw_remove_resolver("alice", resolver)
    \/ update_config("alice", NoAccount, MAX_BPS)
    \/ cw_tick

SpecCosmosOrders == InitCosmos /\ [][NextCosmosOrders]_vars

\* The Cosmos contract with three orders: alice, the instantiator, creates them, and
\* alice and carol, their maker, send claims with the right and with a wrong preimage
\* and refunds, before and after the timeout.
NextCosmosTriple ==
    \/ \E order_hash \in TripleIds, a \in CwOrdersArgs :
          execute_fusion_order("alice", order_hash, a.hashlock, a.maker, a.amount,
                               a.resolver_fee, a.timeout_seconds, U128_MAX)
    \/ \E sender \in {"alice", "carol"}, order_hash \in TripleIds,
          preimage \in CwPreimages :
          claim_fusion_order(sender, order_hash, preimage)
    \/ \E sender \in {"alice", "carol"}, order_hash \in TripleIds :
          refund_order(sender, order_hash)
    \/ cw_tick

SpecCosmosTriple == InitCosmos /\ [][NextCosmosTriple]_vars

\* Funds above the total of 36 that the order of CwOrdersArgs requires at 500 bps:
\* one unit more, and the largest amount a coin can hold.
SurplusFunds == {37, U128_MAX}

\* The Cosmos contract with orders that are all created with more funds than
\* amount + resolver_fee + safety_deposit; alice, the resolver, and carol, the maker,
\* send creations, claims and refunds, before and after the timeout.
NextCosmosSurplus ==
    \/ \E sender \in {"alice", "carol"}, order_hash \in PairIds, a \in CwOrdersArgs,
          funds \in SurplusFunds :
          execute_fusion_order(sender, order_hash, a.hashlock, a.maker, a.amount,
                               a.resolver_fee, a.timeout_seconds, funds)
    \/ \E sender \in {"alice", "carol"}, order_hash \in PairIds,
          preimage \in CwPreimages :
          claim_fusion_order(sender, order_hash, preimage)
    \/ \E sender \in {"alice", "carol"}, order_hash \in PairIds :
          refund_order(sender, order_hash)
    \/ cw_tick

SpecCosmosSurplus == InitCosmos /\ [][NextCosmosSurplus]_vars

\* The Cosmos contract with up to five orders, created and claimed by alice, and the
\* ListOrders query.
NextCosmosListing ==
    \/ \E order_hash \in OrderIds, a \in CwOrdersArgs :
          execute_fusion_order("alice", order_hash, a.hashlock, a.maker, a.amount,
                               a.resolver_fee, a.timeout_seconds, U128_MAX)
    \/ \E order_hash \in OrderIds : claim_fusion_order("alice", order_hash, HelloBytes)
    \/ \E status \in ListStatuses, start_after \in ListCursors, limit \in ListLimits :
          query_list_orders(status, start_after, limit)

SpecCosmosListing == InitCosmos /\ [][NextCosmosListing]_vars

\* The registry of the Cosmos contract: every address may be added and removed, by
\* any sender, and the ListResolvers query.
NextCosmosResolvers ==
    \/ \E sender \in Addrs, resolver \in Addrs : cw_add_resolver(sender, resolver)
    \/ \E sender \in Addrs, resolver \in Addrs : cw_remove_resolver(sender, resolver)
    \/ \E start_after \in ResolverCursors, limit \in ResolverLimits :
          query_list_resolvers(start_after, limit)

SpecCosmosResolvers == InitCosmos /\ [][NextCosmosResolvers]_vars

\* FusionPlusNear::new(500), called by alice one block below the cancellation height.
InitFusion ==
    /\ deployed = "fusion"
    /\ block_time = 0
    /\ block_height = CANCEL_HEIGHT - 1
    /\ cw_config = [admin |-> NoAccount, min_safety_deposit_bps |-> 0]
    /\ cw_orders = <<>>
    /\ cw_resolvers = {}
    /\ fn_orders = <<>>
    /\ fn_resolvers = {}
    /\ fn_owner = "alice"
    /\ fn_bps = DEFAULT_BPS
    /\ ht_orders = <<>>
    /\ ht_resolvers = {}
    /\ ht_owner = NoAccount
    /\ ht_resolver_count = 0
    /\ paid = NoPaid
    /\ last = NoCall

NextFusion ==
    \/ \E predecessor \in Addrs, resolver \in NearRegistryArgs :
          fn_add_resolver(predecessor, resolver)
    \/ \E predecessor \in Addrs, resolver \in NearRegistryArgs :
          fn_remove_resolver(predecessor, resolver)
    \/ \E predecessor \in Addrs, order_hash \in MainIds, a \in FnExecArgs,
          resolver \in Addrs, attached \in FnAttached :
          fn_execute_fusion_order(predecessor, order_hash, a.hashlock, a.maker, resolver,
                                  a.amount, a.resolver_fee, attached)
    \/ \E predecessor \in Addrs, order_hash \in MainIds, preimage \in NearPreimages :
          fn_claim_fusion_order(predecessor, order_hash, preimage)
    \/ \E predecessor \in Addrs, order_hash \in MainIds :
          fn_transfer_to_maker(predecessor, order_hash)
    \/ \E predecessor \in Addrs, order_hash \in MainIds :
          fn_claim_resolver_payment(predecessor, order_hash)
    \/ \E predecessor \in Addrs, order_hash \in MainIds :
          fn_cancel_fusion_order(predecessor, order_hash)
    \/ fn_tick

SpecFusion == InitFusion /\ [][NextFusion]_vars

\* CrossChainHTLC::new(), called by alice at block height 0.
InitHTLC ==
    /\ deployed = "htlc"
    /\ block_time = 0
    /\ block_height = 0
    /\ cw_config = [admin |-> NoAccount, min_safety_deposit_bps |-> 0]
    /\ cw_orders = <<>>
    /\ cw_resolvers = {}
    /\ fn_orders = <<>>
    /\ fn_resolvers = {}
    /\ fn_owner = NoAccount
    /\ fn_bps = 0
    /\ ht_orders = <<>>
    /\ ht_resolvers = {}
    /\ ht_owner = "alice"
    /\ ht_resolver_count = 0
    /\ paid = NoPaid
    /\ last = NoCall

NextHTLC ==
    \/ \E predecessor \in Addrs, resolver \in NearRegistryArgs :
          ht_add_resolver(predecessor, resolver)
    \/ \E predecessor \in Addrs, resolver \in NearRegistryArgs :
          ht_remove_resolver(predecessor, resolver)
    \/ \E predecessor \in HtMakers, order_id \in MainIds, a \in HtCreateArgs :
          create_order(predecessor, order_id, a.hashlock, a.timelock, a.resolver_fee,
                       a.attached)
    \/ \E predecessor \in Addrs, order_id \in MainIds, attached \in HtMatchAttached :
          match_order(predecessor, order_id, attached)
    \/ \E predecessor \in Addrs, order_id \in MainIds, preimage \in NearPreimages :
          claim_order(predecessor, order_id, preimage)
    \/ \E predecessor \in Addrs, order_id \in MainIds : cancel_order(predecessor, order_id)
    \/ ht_tick

SpecHTLC == InitHTLC /\ [][NextHTLC]_vars

\* The three contracts, one per behaviour.
Init == InitCosmos \/ InitFusion \/ InitHTLC
Next == NextCosmos \/ NextFusion \/ NextHTLC
Spec == Init /\ [][Next]_vars

----------------------------------------------------------------------------
(* Properties *)

\* The status of a NEAR HTLC order, read from its two flags.
HtStatus(order) ==
    IF order.is_claimed /\ order.is_refunded THEN "ClaimedAndRefunded"
    ELSE IF order.is_claimed THEN "Claimed"
    ELSE IF order.is_refunded THEN "Refunded"
    ELSE "Open"

\* One step of an order's status: unchanged, or from a non-terminal status to a terminal one.
StatusStep(old, new) ==
    \/ old = new
    \/ old \in {"Pending", "Matched", "Open"} /\ new \in {"Claimed", "Refunded"}

\* C1: in each of the three contracts every step keeps every stored order and either
\* leaves its status as it is or moves it from Pending/Matched to Claimed or Refunded;
\* a Claimed or Refunded order keeps its status; is_claimed and is_refunded of a NEAR
\* HTLC order are never both true.
C1_StatusChangesOnce ==
    [][ /\ \A id \in DOMAIN cw_orders :
              /\ id \in DOMAIN cw_orders'
              /\ StatusStep(cw_orders[id].status, cw_orders'[id].status)
        /\ \A id \in DOMAIN fn_orders :
              /\ id \in DOMAIN fn_orders'
              /\ StatusStep(fn_orders[id].status, fn_orders'[id].status)
        /\ \A id \in DOMAIN ht_orders :
              /\ id \in DOMAIN ht_orders'
              /\ StatusStep(HtStatus(ht_orders[id]), HtStatus(ht_orders'[id]))
              /\ HtStatus(ht_orders'[id]) # "ClaimedAndRefunded" ]_vars

\* A refund of a Claimed order was attempted at or after its timeout, and rejected.
C1_Witness ==
    /\ deployed = "cosmos"
    /\ last.op = "refund_order"
    /\ last.res = "OrderAlreadyClaimed"
    /\ cw_orders[last.id].status = "Claimed"

LockedCw(order) == order.amount + order.resolver_fee + order.safety_deposit

\* C2: in the Cosmos contract the transfers issued for an order sum to 0 while it is
\* Matched and to amount + resolver_fee + safety_deposit once it is Claimed or Refunded.
C2_CustodyEquality ==
    \A id \in DOMAIN cw_orders :
        /\ cw_orders[id].status = "Matched" => paid[id].total = 0
        /\ cw_orders[id].status \in {"Claimed", "Refunded"}
              => paid[id].total = LockedCw(cw_orders[id])

\* A second refund of a Refunded order with a non-zero value was attempted.
C2_Witness ==
    /\ deployed = "cosmos"
    /\ last.op = "refund_order"
    /\ last.res = "OrderAlreadyRefunded"
    /\ paid[last.id].total > 0
    /\ paid[last.id].calls = 1

\* C3: in the NEAR Fusion contract the value transferred out for an order never exceeds
\* amount + resolver_fee + safety_deposit, and the maker never receives more than amount.
C3_NoOverpayment ==
    \A id \in DOMAIN fn_orders :
        /\ paid[id].total <= LockedCw(fn_orders[id])
        /\ paid[id].maker <= fn_orders[id].amount

\* C4: in the NEAR HTLC contract a successful claim_order transfers amount to the maker
\* and resolver_fee + safety_deposit to the resolver (the two are different accounts).
C4_ClaimPaysMakerAndResolver ==
    (deployed = "htlc" /\ last.op = "claim_order" /\ last.res = "Ok"
        /\ ht_orders[last.id].maker # ht_orders[last.id].resolver)
    => /\ SumTo(last.msgs, ht_orders[last.id].maker) = ht_orders[last.id].amount
       /\ SumTo(last.msgs, ht_orders[last.id].resolver)
              = ht_orders[last.id].resolver_fee + ht_orders[last.id].safety_deposit

\* C5: in the NEAR Fusion contract a successful claim_fusion_order itself transfers
\* amount to the maker and resolver_fee + safety_deposit to the resolver.
C5_ClaimAlonePays ==
    (deployed = "fusion" /\ last.op = "claim_fusion_order" /\ last.res = "Ok"
        /\ fn_orders[last.id].maker # fn_orders[last.id].resolver)
    => /\ SumTo(last.msgs, fn_orders[last.id].maker) = fn_orders[last.id].amount
       /\ SumTo(last.msgs, fn_orders[last.id].resolver)
              = fn_orders[last.id].resolver_fee + fn_orders[last.id].safety_deposit

\* The transfers with a non-zero amount among three candidates, in order.
NonZeroOnly(msgs) == SelectSeq(msgs, LAMBDA m : m.amount # 0)

\* C6: in the Cosmos contract the messages of a successful claim_fusion_order are
\* exactly amount to the maker, resolver_fee to the resolver and safety_deposit to the
\* resolver, without those whose value is zero.
C6_OneTransferPerComponent ==
    (deployed = "cosmos" /\ last.op = "claim_fusion_order" /\ last.res = "Ok")
    => /\ last.msgs = NonZeroOnly(<<[to |-> cw_orders[last.id].maker,
                                     amount |-> cw_orders[last.id].amount],
                                    [to |-> cw_orders[last.id].resolver,
                                     amount |-> cw_orders[last.id].resolver_fee],
                                    [to |-> cw_orders[last.id].resolver,
                                     amount |-> cw_orders[last.id].safety_deposit]>>)
       /\ \A i \in DOMAIN last.msgs : last.msgs[i].amount > 0

\* A claim of an order with a zero component succeeded.
C6_Witness ==
    /\ deployed = "cosmos"
    /\ last.op = "claim_fusion_order"
    /\ last.res = "Ok"
    /\ cw_orders[last.id].resolver_fee = 0
    /\ cw_orders[last.id].amount > 0
    /\ Len(last.msgs) < 3

\* C7: in the Cosmos contract and in the NEAR HTLC contract a claim succeeds only at a
\* chain time strictly before the order's deadline and a refund/cancel only at or after
\* it; at the deadline itself no claim succeeds and no refund is rejected for its time;
\* no caller's claim and no caller's refund of one order can both succeed in one state.
C7_ClaimBeforeRefundAfter ==
    /\ (deployed = "cosmos" /\ last.op = "claim_fusion_order" /\ last.res = "Ok")
          => block_time < cw_orders[last.id].timeout
    /\ (deployed = "cosmos" /\ last.op = "refund_order" /\ last.res = "Ok")
          => block_time >= cw_orders[last.id].timeout
    /\ \A id \in DOMAIN cw_orders, s1 \in Addrs, s2 \in Addrs, p \in CwPreimages :
          /\ ~(CwClaimResult(s1, id, p) = "Ok" /\ CwRefundResult(s2, id) = "Ok")
          /\ block_time = cw_orders[id].timeout
                => /\ CwClaimResult(s1, id, p) # "Ok"
                   /\ CwRefundResult(s2, id) # "TimelockNotExpired"
    /\ (deployed = "htlc" /\ last.op = "claim_order" /\ last.res = "Ok")
          => block_height < ht_orders[last.id].timelock
    /\ (deployed = "htlc" /\ last.op = "cancel_order" /\ last.res = "Ok")
          => block_height >= ht_orders[last.id].timelock
    /\ \A id \in DOMAIN ht_orders, s1 \in Addrs, s2 \in Addrs, p \in NearPreimages :
          /\ ~(HtClaimResult(s1, id, p) = "Ok" /\ HtCancelResult(s2, id) = "Ok")
          /\ block_height = ht_orders[id].timelock
                => /\ HtClaimResult(s1, id, p) # "Ok"
                   /\ HtCancelResult(s2, id) # "Timelock not yet expired"

\* The resolver's claim with the right preimage was rejected at exactly the timeout of a
\* Matched order, where the maker's refund would succeed.
C7_Witness ==
    /\ deployed = "cosmos"
    /\ last.op = "claim_fusion_order"
    /\ last.res = "TimelockExpired"
    /\ cw_orders[last.id].status = "Matched"
    /\ block_time = cw_orders[last.id].timeout
    /\ block_time > 0
    /\ validate_preimage(HelloBytes, cw_orders[last.id].hashlock)
    /\ CwRefundResult(cw_orders[last.id].maker, last.id) = "Ok"

\* C8: in the NEAR Fusion contract there is no state in which, for one order, the
\* resolver's claim with some preimage and the resolver's cancel would both succeed.
C8_ClaimAndCancelExclusive ==
    \A id \in DOMAIN fn_orders, p \in NearPreimages :
        ~(/\ FnClaimResult(fn_orders[id].resolver, id, p) = "Ok"
          /\ FnCancelResult(fn_orders[id].resolver, id) = "Ok")

\* C9: in the NEAR Fusion contract a successful execute_fusion_order was called by an
\* account of the resolver registry.
C9_CallerIsAuthorized ==
    (deployed = "fusion" /\ last.op = "execute_fusion_order" /\ last.res = "Ok")
    => last.sender \in fn_resolvers

\* C10: in the Cosmos contract an execute_fusion_order sent by an address that is not
\* an authorized resolver returns UnauthorizedResolver and leaves the orders as they were.
C10_UnauthorizedExecuteRejected ==
    [][ (last'.op = "execute_fusion_order" /\ deployed = "cosmos"
            /\ last'.sender \notin cw_resolvers)
        => (last'.res = "UnauthorizedResolver" /\ cw_orders' = cw_orders) ]_vars

\* An unauthorized address called execute_fusion_order with an order_hash already in use.
C10_Witness ==
    /\ deployed = "cosmos"
    /\ last.op = "execute_fusion_order"
    /\ last.sender \notin cw_resolvers
    /\ last.id \in DOMAIN cw_orders
    /\ last.res = "UnauthorizedResolver"

\* C11: in the Cosmos contract, for every Matched order before its timeout, the
\* resolver's claim with a preimage succeeds exactly when hex(sha256(preimage)) and the
\* hashlock are equal up to the case of their letters, and fails with InvalidPreimage
\* otherwise; after a claim that ended with InvalidPreimage the order is still Matched
\* and still has no preimage.
C11_ClaimIffPreimageMatches ==
    /\ \A id \in DOMAIN cw_orders, p \in CwPreimages :
          (cw_orders[id].status = "Matched" /\ block_time < cw_orders[id].timeout)
          => CwClaimResult(cw_orders[id].resolver, id, p)
                = (IF ToUppercase(HexEncode(Sha256(p))) = ToUppercase(cw_orders[id].hashlock)
                   THEN "Ok" ELSE "InvalidPreimage")
    /\ (deployed = "cosmos" /\ last.op = "claim_fusion_order" /\ last.res = "InvalidPreimage")
       => /\ cw_orders[last.id].status = "Matched"
          /\ cw_orders[last.id].preimage = None

\* An order whose hashlock is spelled in upper case was claimed.
C11_Witness ==
    /\ deployed = "cosmos"
    /\ last.op = "claim_fusion_order"
    /\ last.res = "Ok"
    /\ cw_orders[last.id].hashlock # ToLowercase(cw_orders[last.id].hashlock)
    /\ cw_orders[last.id].preimage = Some(HelloBytes)

\* C12: in the NEAR Fusion and NEAR HTLC contracts an order whose hashlock is the hex
\* of sha256(preimage) in any case of its letters can be claimed by its resolver with
\* that preimage (NEAR HTLC: a matched, unsettled order before its timelock).
C12_NearClaimIgnoresCase ==
    /\ \A id \in DOMAIN fn_orders, p \in {Secret1Hex, Secret2Hex} :
          (/\ fn_orders[id].status = "Matched"
           /\ ToLowercase(fn_orders[id].hashlock) = HexEncode(Sha256(HexDecode(p))))
          => FnClaimResult(fn_orders[id].resolver, id, p) = "Ok"
    /\ \A id \in DOMAIN ht_orders, p \in {Secret1Hex, Secret2Hex} :
          (/\ ht_orders[id].resolver # NoAccount
           /\ ~ht_orders[id].is_claimed /\ ~ht_orders[id].is_refunded
           /\ block_height < ht_orders[id].timelock
           /\ ToLowercase(ht_orders[id].hashlock) = HexEncode(Sha256(HexDecode(p))))
          => HtClaimResult(ht_orders[id].resolver, id, p) = "Ok"

\* The calls that create an order, in the three contracts.
CreationOps == {"execute_fusion_order", "create_order"}

\* C13 (as amended): in each contract a creation call whose id is already stored fails,
\* whatever the status of the stored order, and leaves the stored orders as they were;
\* in the Cosmos contract the error is OrderAlreadyExists when the sender is an
\* authorized resolver (another sender gets UnauthorizedResolver).
C13_ExistingIdRejected ==
    [][ (last'.op \in CreationOps
            /\ last'.id \in (DOMAIN cw_orders \cup DOMAIN fn_orders \cup DOMAIN ht_orders))
        => /\ last'.res # "Ok"
           /\ cw_orders' = cw_orders /\ fn_orders' = fn_orders /\ ht_orders' = ht_orders
           /\ (deployed = "cosmos" /\ last'.sender \in cw_resolvers)
                 => last'.res = "OrderAlreadyExists" ]_vars

\* C13 (as stated): the same, with OrderAlreadyExists the error of every such call to the
\* Cosmos contract.
C13_AlwaysOrderAlreadyExists ==
    [][ (last'.op \in CreationOps
            /\ last'.id \in (DOMAIN cw_orders \cup DOMAIN fn_orders \cup DOMAIN ht_orders))
        => /\ last'.res # "Ok"
           /\ cw_orders' = cw_orders /\ fn_orders' = fn_orders /\ ht_orders' = ht_orders
           /\ deployed = "cosmos" => last'.res = "OrderAlreadyExists" ]_vars

\* An authorized, fully funded creation on the id of a Claimed NEAR Fusion order was rejected.
C13_Witness ==
    /\ deployed = "fusion"
    /\ last.op = "execute_fusion_order"
    /\ last.res = "Order already exists"
    /\ fn_orders[last.id].status = "Claimed"

\* The calls of execute_fusion_order that pass every check before the one of the funds.
CwReachesFundsCheck(sender, order_hash, a) ==
    /\ sender \in cw_resolvers
    /\ order_hash \notin DOMAIN cw_orders
    /\ CwValidHashlock(a.hashlock)
    /\ a.amount * cw_config.min_safety_deposit_bps <= U128_MAX
    /\ a.amount + a.resolver_fee
          + (a.amount * cw_config.min_safety_deposit_bps) \div 10000 <= U128_MAX

C15_RefundAllToResolver ==
    (deployed = "cosmos" /\ last.op = "refund_order" /\ last.res = "Ok")
    => /\ last.sender \in {cw_orders[last.id].maker, cw_orders[last.id].resolver}
       /\ Len(last.msgs) = 1
       /\ last.msgs[1].to = cw_orders[last.id].resolver
       /\ last.msgs[1].amount = cw_orders[last.id].amount + cw_orders[last.id].resolver_fee
                                   + cw_orders[last.id].safety_deposit

\* The maker, who is not the resolver, refunded an order of non-zero value.
C15_Witness ==
    /\ deployed = "cosmos"
    /\ last.op = "refund_order"
    /\ last.res = "Ok"
    /\ last.sender = cw_orders[last.id].maker
    /\ last.sender # cw_orders[last.id].resolver
    /\ cw_orders[last.id].amount > 0
    /\ SumTo(last.msgs, cw_orders[last.id].maker) = 0

\* C16: in the NEAR HTLC contract a successful cancel_order transfers
\* amount + resolver_fee to the maker and, when the order was matched, safety_deposit to
\* its resolver, and nothing else; the transfers sum to
\* amount + resolver_fee + safety_deposit.
C16_CancelPaysMakerAndResolver ==
    (deployed = "htlc" /\ last.op = "cancel_order" /\ last.res = "Ok")
    => LET order == ht_orders[last.id] IN
       /\ last.msgs
             = IF order.resolver = NoAccount
               THEN <<[to |-> order.maker, amount |-> order.amount + order.resolver_fee]>>
               ELSE <<[to |-> order.maker, amount |-> order.amount + order.resolver_fee],
                      [to |-> order.resolver, amount |-> order.safety_deposit]>>
       /\ SumAmounts(last.msgs)
             = order.amount + order.resolver_fee + order.safety_deposit

\* The maker cancelled a matched order that holds a non-zero safety deposit.
C16_Witness ==
    /\ deployed = "htlc"
    /\ last.op = "cancel_order"
    /\ last.res = "Ok"
    /\ ht_orders[last.id].resolver # NoAccount
    /\ ht_orders[last.id].safety_deposit > 0

\* The error refund_order has for an order of a terminal status.
AlreadySettledError(status) ==
    IF status = "Claimed" THEN "OrderAlreadyClaimed" ELSE "OrderAlreadyRefunded"

\* C17 (as amended): in the Cosmos contract, on a Claimed or Refunded order every claim
\* and every refund fails, by any caller at any time; the claim of the order's resolver
\* fails with InvalidOrderStatus at any time, and a refund at or after the timeout fails
\* with OrderAlreadyClaimed / OrderAlreadyRefunded for any caller; a failed claim or
\* refund issues no transfer.
C17_TerminalOrderRejects ==
    /\ \A id \in DOMAIN cw_orders, s \in Addrs, p \in CwPreimages :
          cw_orders[id].status \in {"Claimed", "Refunded"}
          => /\ CwClaimResult(s, id, p) # "Ok"
             /\ CwRefundResult(s, id) # "Ok"
             /\ s = cw_orders[id].resolver => CwClaimResult(s, id, p) = "InvalidOrderStatus"
             /\ block_time >= cw_orders[id].timeout
                   => CwRefundResult(s, id) = AlreadySettledError(cw_orders[id].status)
    /\ (deployed = "cosmos" /\ last.op \in {"claim_fusion_order", "refund_order"}
           /\ last.res # "Ok")
       => last.msgs = <<>>

\* C17 (as stated): on a Claimed or Refunded order every claim fails with
\* InvalidOrderStatus and every refund with OrderAlreadyClaimed / OrderAlreadyRefunded,
\* whatever the caller and the chain time.
C17_AlwaysStatusError ==
    \A id \in DOMAIN cw_orders, s \in Addrs, p \in CwPreimages :
        cw_orders[id].status \in {"Claimed", "Refunded"}
        => /\ CwClaimResult(s, id, p) = "InvalidOrderStatus"
           /\ CwRefundResult(s, id) = AlreadySettledError(cw_orders[id].status)

\* After the timeout, a refund of a Claimed order sent by an account that is neither its
\* maker nor its resolver was rejected with OrderAlreadyClaimed.
C17_Witness ==
    /\ deployed = "cosmos"
    /\ last.op = "refund_order"
    /\ last.res = "OrderAlreadyClaimed"
    /\ last.sender \notin {cw_orders[last.id].maker, cw_orders[last.id].resolver}
    /\ paid[last.id].calls = 1

\* C18 (as amended): in the Cosmos contract, for every stored order, at a chain time at
\* or after the timeout every claim fails, and the claim of the resolver on a Matched
\* order fails with TimelockExpired whether or not the preimage is right; before the
\* timeout every refund, by any caller and in any status, fails with TimelockNotExpired.
C18_TimelockErrors ==
    \A id \in DOMAIN cw_orders, s \in Addrs, p \in CwPreimages :
        /\ block_time >= cw_orders[id].timeout
              => /\ CwClaimResult(s, id, p) # "Ok"
                 /\ (s = cw_orders[id].resolver /\ cw_orders[id].status = "Matched")
                       => CwClaimResult(s, id, p) = "TimelockExpired"
        /\ block_time < cw_orders[id].timeout
              => CwRefundResult(s, id) = "TimelockNotExpired"

\* C18 (as stated): at or after the timeout every claim on a stored order fails with
\* TimelockExpired, and before it every refund fails with TimelockNotExpired.
C18_AlwaysTimelockExpired ==
    \A id \in DOMAIN cw_orders, s \in Addrs, p \in CwPreimages :
        /\ block_time >= cw_orders[id].timeout
              => CwClaimResult(s, id, p) = "TimelockExpired"
        /\ block_time < cw_orders[id].timeout
              => CwRefundResult(s, id) = "TimelockNotExpired"

\* Before the timeout, a refund of an order that is already Claimed was rejected with
\* TimelockNotExpired.
C18_Witness ==
    /\ deployed = "cosmos"
    /\ last.op = "refund_order"
    /\ last.res = "TimelockNotExpired"
    /\ cw_orders[last.id].status = "Claimed"
    /\ block_time < cw_orders[last.id].timeout

\* The calls that settle an order, in the three contracts.
SettlingOps == {"claim_fusion_order", "refund_order", "cancel_fusion_order", "claim_order",
                "cancel_order"}

\* C19: a successful claim was sent by the order's resolver (Cosmos, NEAR Fusion, NEAR
\* HTLC, where the order has a resolver); a successful refund was sent by the maker or
\* the resolver in Cosmos, by the resolver in NEAR Fusion and by the maker in NEAR HTLC;
\* a claim or refund that fails leaves the orders as they were.
C19_OnlyDesignatedParties ==
    [][ last'.op \in SettlingOps
        => /\ (last'.res = "Ok" /\ deployed = "cosmos" /\ last'.op = "claim_fusion_order")
                 => last'.sender = cw_orders[last'.id].resolver
           /\ (last'.res = "Ok" /\ deployed = "cosmos" /\ last'.op = "refund_order")
                 => last'.sender \in {cw_orders[last'.id].maker, cw_orders[last'.id].resolver}
           /\ (last'.res = "Ok" /\ deployed = "fusion")
                 => last'.sender = fn_orders[last'.id].resolver
           /\ (last'.res = "Ok" /\ deployed = "htlc" /\ last'.op = "claim_order")
                 => /\ ht_orders[last'.id].resolver # NoAccount
                    /\ last'.sender = ht_orders[last'.id].resolver
           /\ (last'.res = "Ok" /\ deployed = "htlc" /\ last'.op = "cancel_order")
                 => last'.sender = ht_orders[last'.id].maker
           /\ last'.res # "Ok"
                 => (cw_orders' = cw_orders /\ fn_orders' = fn_orders
                        /\ ht_orders' = ht_orders) ]_vars

\* A claim of a NEAR HTLC order that no resolver has matched was attempted.
C19_Witness ==
    /\ deployed = "htlc"
    /\ last.op = "claim_order"
    /\ last.res = "unwrap on None"
    /\ ht_orders[last.id].resolver = NoAccount
    /\ ~ht_orders[last.id].is_claimed

\* The stored preimage of a Cosmos order hashes to its hashlock (hex, any case).
CwPreimageOpens(order) ==
    ToLowercase(HexEncode(Sha256(order.preimage.val))) = ToLowercase(order.hashlock)

\* The stored preimage of a NEAR order, a hex string, decodes to bytes that hash to its
\* hashlock (hex, any case).
NearPreimageOpens(order) ==
    /\ HexDecodable(order.preimage.val)
    /\ HexEncode(Sha256(HexDecode(order.preimage.val))) = ToLowercase(order.hashlock)

\* In this state every order has a preimage exactly when it is Claimed, and the
\* preimage hashes to the hashlock.
PreimageIffClaimed ==
    /\ \A id \in DOMAIN cw_orders :
          /\ cw_orders[id].preimage.some <=> cw_orders[id].status = "Claimed"
          /\ cw_orders[id].preimage.some => CwPreimageOpens(cw_orders[id])
    /\ \A id \in DOMAIN fn_orders :
          /\ fn_orders[id].preimage.some <=> fn_orders[id].status = "Claimed"
          /\ fn_orders[id].preimage.some => NearPreimageOpens(fn_orders[id])
    /\ \A id \in DOMAIN ht_orders :
          /\ ht_orders[id].preimage.some <=> ht_orders[id].is_claimed
          /\ ht_orders[id].preimage.some => NearPreimageOpens(ht_orders[id])

\* C20: in every contract an order has a preimage exactly when it is Claimed (NEAR HTLC:
\* is_claimed), a stored preimage hashes to the order's hashlock, and no step changes or
\* clears a stored preimage. (No order is stored initially; every step that changes an
\* order map must lead to a state where this holds.)
C20_PreimageIffClaimed ==
    [][ \/ (cw_orders' = cw_orders /\ fn_orders' = fn_orders /\ ht_orders' = ht_orders)
        \/ /\ PreimageIffClaimed'
           /\ \A id \in DOMAIN cw_orders :
                 cw_orders[id].preimage.some
                 => cw_orders'[id].preimage = cw_orders[id].preimage
           /\ \A id \in DOMAIN fn_orders :
                 fn_orders[id].preimage.some
                 => fn_orders'[id].preimage = fn_orders[id].preimage
           /\ \A id \in DOMAIN ht_orders :
                 ht_orders[id].preimage.some
                 => ht_orders'[id].preimage = ht_orders[id].preimage ]_vars

\* A NEAR Fusion order claimed with the upper-case spelling of its preimage holds it, and
\* a second claim was rejected.
C20_Witness ==
    /\ deployed = "fusion"
    /\ last.op = "claim_fusion_order"
    /\ last.res = "Order not claimable"
    /\ fn_orders[last.id].status = "Claimed"
    /\ fn_orders[last.id].preimage = Some(ToUppercase(Secret1Hex))


\* C21: in the Cosmos contract an execute call that returns an error leaves the
\* orders, the resolver registry and Config as they were and issues no transfer; a
\* claim or refund that succeeds changes the order's status and issues its transfers
\* in the same step.
C21_FailedCallChangesNothing ==
    [][ (deployed = "cosmos" /\ last'.op # "none")
        => /\ last'.res # "Ok"
              => /\ cw_orders' = cw_orders
                 /\ cw_resolvers' = cw_resolvers
                 /\ cw_config' = cw_config
                 /\ paid' = paid
                 /\ last'.msgs = <<>>
           /\ (last'.res = "Ok" /\ last'.op = "claim_fusion_order")
              => /\ cw_orders'[last'.id].status = "Claimed"
                 /\ last'.msgs = CwClaimMessages(cw_orders[last'.id])
           /\ (last'.res = "Ok" /\ last'.op = "refund_order")
              => /\ cw_orders'[last'.id].status = "Refunded"
                 /\ last'.msgs = CwRefundMessages(cw_orders[last'.id]) ]_vars

\* A refund of an expired, still matched order of non-zero value was rejected because
\* the sender is neither its maker nor its resolver.
C21_Witness ==
    /\ deployed = "cosmos"
    /\ last.op = "refund_order"
    /\ last.res = "Unauthorized"
    /\ cw_orders[last.id].status = "Matched"
    /\ cw_orders[last.id].amount > 0
    /\ block_time >= cw_orders[last.id].timeout


\* C22: every order is created with a deadline strictly later than the chain time or
\* height of its creation: right after a successful Cosmos execute_fusion_order the
\* order's timeout is above the block time and its refund is not yet open, and right
\* after a successful NEAR HTLC create_order the timelock is above the block height.
C22_DeadlineStrictlyInFuture ==
    /\ (deployed = "cosmos" /\ last.op = "execute_fusion_order" /\ last.res = "Ok")
       => /\ cw_orders[last.id].timeout > block_time
          /\ CwRefundResult(cw_orders[last.id].resolver, last.id) = "TimelockNotExpired"
    /\ (deployed = "htlc" /\ last.op = "create_order" /\ last.res = "Ok")
       => ht_orders[last.id].timelock > block_height


\* The admin or owner of the deployed contract.
CurrentAdmin ==
    CASE deployed = "cosmos" -> cw_config.admin
      [] deployed = "fusion" -> fn_owner
      [] deployed = "htlc" -> ht_owner

\* The resolver registry of the deployed contract.
Registry ==
    CASE deployed = "cosmos" -> cw_resolvers
      [] deployed = "fusion" -> fn_resolvers
      [] deployed = "htlc" -> ht_resolvers

\* C23: in every contract add_resolver and remove_resolver succeed exactly when the
\* caller is the current admin or owner (in Cosmos the admin now in Config); a call
\* by anyone else fails, in Cosmos with Unauthorized, and leaves the registry as it
\* was; a call by the admin adds or removes the resolver.
C23_RegistryAdminOnly ==
    [][ last'.op \in {"add_resolver", "remove_resolver"}
        => /\ (last'.res = "Ok") <=> (last'.sender = CurrentAdmin)
           /\ last'.res # "Ok"
              => /\ Registry' = Registry
                 /\ ht_resolver_count' = ht_resolver_count
                 /\ deployed = "cosmos" => last'.res = "Unauthorized"
           /\ (last'.res = "Ok" /\ last'.op = "add_resolver") => last'.id \in Registry'
           /\ (last'.res = "Ok" /\ last'.op = "remove_resolver")
              => last'.id \notin Registry' ]_vars

\* In the Cosmos contract alice, who instantiated it and is a resolver, was refused
\* an add_resolver because bob is the admin, and bps shows Config was updated.
C23_Witness ==
    /\ deployed = "cosmos"
    /\ last.op = "add_resolver"
    /\ last.sender = "alice"
    /\ last.res = "Unauthorized"
    /\ "alice" \in cw_resolvers
    /\ cw_config.admin = "bob"
    /\ cw_config.min_safety_deposit_bps = MAX_BPS
    /\ last.id \notin cw_resolvers


\* is_authorized_resolver / IsAuthorizedResolver: the stored flag, false when absent.
is_authorized_resolver(resolver) == resolver \in Registry

CwJustInstantiated == deployed = "cosmos" /\ last = NoCall /\ block_time = 0

\* C25: right after instantiate of the Cosmos contract, before any other call, the
\* admin recorded in Config is an authorized resolver, whatever the admin argument.
C25_AdminIsResolverAtInstantiate ==
    CwJustInstantiated => cw_config.admin \in cw_resolvers


\* C26: in the Cosmos contract update_config succeeds exactly when the sender is the
\* current admin and the ratio, when one is given, is in 1..10000; another sender
\* gets Unauthorized, a ratio of 0 or above 10000 is rejected, a rejected call leaves
\* Config as it was, new admin included, an accepted one stores what was passed, and
\* min_safety_deposit_bps stays in 1..10000.
C26_UpdateConfigValidated ==
    [][ (deployed = "cosmos" /\ last'.op = "update_config")
        => LET admin == last'.detail.admin IN
           /\ last'.res = "Ok" => last'.sender = cw_config.admin
           /\ last'.sender # cw_config.admin => last'.res = "Unauthorized"
           /\ last'.res # "Ok" => cw_config' = cw_config
           /\ last'.res = "Ok"
              => cw_config'.admin = IF admin # NoAccount THEN admin ELSE cw_config.admin
           /\ cw_config'.min_safety_deposit_bps \in 1..10000
           /\ \A bps \in CwNewBps :
                 (CwUpdateResult(cw_config.admin, bps) = "Ok")
                    <=> (bps = -1 \/ bps \in 1..10000) ]_vars

\* The admin alice passed bob as new admin together with a ratio outside 1..10000:
\* the call was rejected and alice is still the admin.
C26_Witness ==
    /\ deployed = "cosmos"
    /\ last.op = "update_config"
    /\ last.res = "Std"
    /\ last.sender = "alice"
    /\ last.detail.admin = "bob"
    /\ cw_config.admin = "alice"


\* The fields of a Cosmos order that are set at creation.
CwCreationFields(order) ==
    <<order.maker, order.resolver, order.amount, order.resolver_fee, order.safety_deposit,
      order.hashlock, order.timeout>>

\* C27: in the Cosmos contract no call changes the maker, resolver, amount,
\* resolver_fee, safety_deposit, hashlock or timeout of a stored order, and an order
\* created after a change of min_safety_deposit_bps stores
\* floor(amount * bps / 10000) for the ratio in Config at its creation.
C27_CreationFieldsImmutable ==
    [][ deployed = "cosmos"
        => /\ \A id \in DOMAIN cw_orders :
                /\ id \in DOMAIN cw_orders'
                /\ CwCreationFields(cw_orders'[id]) = CwCreationFields(cw_orders[id])
           /\ \A id \in DOMAIN cw_orders' \ DOMAIN cw_orders :
                /\ last'.op = "execute_fusion_order"
                /\ BPS_DENOMINATOR * cw_orders'[id].safety_deposit
                      <= cw_orders'[id].amount * cw_config.min_safety_deposit_bps
                /\ cw_orders'[id].amount * cw_config.min_safety_deposit_bps
                      < BPS_DENOMINATOR * (cw_orders'[id].safety_deposit + 1) ]_vars

\* An order created at the default ratio has been claimed and keeps its deposit of 1,
\* while an order of the same amount created after the ratio became 10000 stores 30.
C27_Witness ==
    /\ deployed = "cosmos"
    /\ {"o1", "o2"} \subseteq DOMAIN cw_orders
    /\ cw_orders["o1"].amount = cw_orders["o2"].amount
    /\ cw_orders["o1"].safety_deposit = 1
    /\ cw_orders["o1"].status = "Claimed"
    /\ cw_orders["o2"].safety_deposit = 30
    /\ cw_config.min_safety_deposit_bps = MAX_BPS


\* C28: in the Cosmos contract ListOrders with a status filter returns, in ascending
\* key order, the first orders after the cursor whose status is the filter's, up to
\* limit of them, however many orders of another status have smaller keys.
C28_FilteredListingFillsLimit ==
    (deployed = "cosmos" /\ last.op = "list_orders" /\ last.detail.status.some)
    => LET d == last.detail
           matching == {k \in DOMAIN cw_orders :
                           /\ \/ ~d.start_after.some
                              \/ BytesLess(KeyBytes(d.start_after.val), KeyBytes(k))
                           /\ cw_orders[k].status = d.status.val}
       IN d.orders = Take(Ascending(matching), QueryLimit(d.limit))


C31_NearHashlockIsHex ==
    /\ \A id \in DOMAIN fn_orders :
          /\ Len(fn_orders[id].hashlock) = 64
          /\ \A i \in DOMAIN fn_orders[id].hashlock :
                IsAsciiHexdigit(fn_orders[id].hashlock[i])
    /\ \A id \in DOMAIN ht_orders :
          /\ Len(ht_orders[id].hashlock) = 64
          /\ \A i \in DOMAIN ht_orders[id].hashlock :
                IsAsciiHexdigit(ht_orders[id].hashlock[i])


\* Exactly 64 characters, each one of 0-9, A-F, a-f.
SixtyFourHexChars(s) ==
    /\ Len(s) = 64
    /\ \A i \in 1..Len(s) : s[i] \in (48..57) \cup (65..70) \cup (97..102)

\* C32: in the Cosmos contract execute_fusion_order by an authorized resolver with an
\* unused order_hash fails with InvalidHashlock exactly when the hashlock is not 64
\* hex digits of either case, whatever the other arguments; the failed call stores no
\* order, and every stored order has a hashlock of 64 hex digits.
C32_InvalidHashlockRejected ==
    deployed = "cosmos"
    => /\ \A sender \in cw_resolvers, order_hash \in MainIds \ DOMAIN cw_orders,
             a \in CwExecArgs, funds \in CwFunds :
             (CwExecuteResult(sender, order_hash, a.hashlock, a.amount, a.resolver_fee,
                              funds) = "InvalidHashlock")
                <=> ~SixtyFourHexChars(a.hashlock)
       /\ (last.op = "execute_fusion_order" /\ last.res = "InvalidHashlock")
          => /\ last.sender \in cw_resolvers
             /\ last.id \notin DOMAIN cw_orders
       /\ \A id \in DOMAIN cw_orders : SixtyFourHexChars(cw_orders[id].hashlock)

\* bob, added to the registry, sent an execute_fusion_order that failed with
\* InvalidHashlock, and no order is stored.
C32_Witness ==
    /\ deployed = "cosmos"
    /\ last.op = "execute_fusion_order"
    /\ last.res = "InvalidHashlock"
    /\ last.sender = "bob"
    /\ "bob" \in cw_resolvers
    /\ cw_orders = <<>>


\* The arithmetic of execute_fusion_order leaves the unsigned 128-bit range: the
\* product amount * bps, or the sum amount + resolver_fee + safety_deposit.
CwArithmeticOverflows(a) ==
    \/ a.amount * cw_config.min_safety_deposit_bps > U128_MAX
    \/ a.amount + a.resolver_fee
          + (a.amount * cw_config.min_safety_deposit_bps) \div 10000 > U128_MAX

C34_OtherOrdersUntouched ==
    [][ (deployed = "cosmos" /\ last'.op \in {"claim_fusion_order", "refund_order"})
        => /\ DOMAIN cw_orders' = DOMAIN cw_orders
           /\ \A id \in DOMAIN cw_orders \ {last'.id} : cw_orders'[id] = cw_orders[id]
           /\ \A id \in OrderIds \ {last'.id} : paid'[id] = paid[id] ]_vars

\* The middle one of three orders has just been claimed and the other two are still
\* Matched and unpaid.
C34_Witness ==
    /\ deployed = "cosmos"
    /\ DOMAIN cw_orders = TripleIds
    /\ last.op = "claim_fusion_order"
    /\ last.res = "Ok"
    /\ last.id = "o2"
    /\ cw_orders["o2"].status = "Claimed"
    /\ cw_orders["o1"].status = "Matched"
    /\ cw_orders["o3"].status = "Matched"
    /\ paid["o1"].total = 0
    /\ paid["o3"].total = 0


C36_ExpiredOrderRefundable ==
    deployed = "cosmos"
    => \A id \in DOMAIN cw_orders :
          (cw_orders[id].status = "Matched" /\ block_time >= cw_orders[id].timeout)
          => /\ CwRefundResult(cw_orders[id].maker, id) = "Ok"
             /\ CwRefundResult(cw_orders[id].resolver, id) = "Ok"

\* An order created by bob at the default ratio is still Matched past its timeout,
\* bob has been removed from the registry and the ratio has been raised.
C36_Witness ==
    /\ deployed = "cosmos"
    /\ \E id \in DOMAIN cw_orders :
          /\ cw_orders[id].status = "Matched"
          /\ block_time > cw_orders[id].timeout
          /\ cw_orders[id].resolver = "bob"
          /\ cw_orders[id].amount = 30
          /\ cw_orders[id].safety_deposit = 1
    /\ "bob" \notin cw_resolvers
    /\ cw_config.min_safety_deposit_bps = MAX_BPS


\* C37: in the NEAR HTLC contract create_order succeeds, for any caller, only if the
\* attached deposit is strictly greater than resolver_fee, timelock > block height,
\* the hashlock has 64 characters and the id is unused; the stored order then has
\* maker = caller, amount = attached deposit - resolver_fee (at least 1),
\* safety_deposit = 0, no resolver, and is neither claimed nor refunded; a failed
\* call stores nothing.
C37_CreateOrderStoresDeposit ==
    [][ (deployed = "htlc" /\ last'.op = "create_order")
        => /\ last'.res = "Ok"
              => /\ last'.id \notin DOMAIN ht_orders
                 /\ DOMAIN ht_orders' = DOMAIN ht_orders \cup {last'.id}
                 /\ \A id \in DOMAIN ht_orders : ht_orders'[id] = ht_orders[id]
                 /\ \E a \in HtCreateArgs :
                       /\ a.attached > a.resolver_fee
                       /\ a.timelock > block_height
                       /\ Len(a.hashlock) = 64
                       /\ ht_orders'[last'.id]
                             = [maker |-> last'.sender,
                                resolver |-> NoAccount,
                                amount |-> a.attached - a.resolver_fee,
                                hashlock |-> a.hashlock,
                                timelock |-> a.timelock,
                                resolver_fee |-> a.resolver_fee,
                                safety_deposit |-> 0,
                                is_claimed |-> FALSE,
                                is_refunded |-> FALSE,
                                preimage |-> None]
                 /\ ht_orders'[last'.id].amount >= 1
           /\ last'.res # "Ok" => ht_orders' = ht_orders ]_vars

\* carol, who is neither the owner nor a resolver, has created an order of amount 20
\* with 25 attached and a resolver fee of 5.
C37_Witness ==
    /\ deployed = "htlc"
    /\ last.op = "create_order"
    /\ last.res = "Ok"
    /\ last.sender = "carol"
    /\ ht_orders[last.id].maker = "carol"
    /\ ht_orders[last.id].amount = 20
    /\ ht_orders[last.id].resolver_fee = 5
    /\ ht_orders[last.id].resolver = NoAccount
    /\ ht_orders[last.id].safety_deposit = 0


\* The two payout methods of the NEAR Fusion contract.
FnPayoutOps == {"transfer_to_maker", "claim_resolver_payment"}

\* C38: in the NEAR Fusion contract transfer_to_maker and claim_resolver_payment
\* succeed only when the order's status is Claimed and the caller is the order's
\* resolver; on a Matched or Refunded order they fail and pay nothing, so the maker
\* has been paid nothing unless the order is Claimed.
C38_PayoutOnlyAfterClaim ==
    [][ /\ (deployed = "fusion" /\ last'.op \in FnPayoutOps)
           => /\ last'.res = "Ok"
                 => /\ last'.id \in DOMAIN fn_orders
                    /\ fn_orders[last'.id].status = "Claimed"
                    /\ last'.sender = fn_orders[last'.id].resolver
              /\ (/\ last'.id \in DOMAIN fn_orders
                  /\ fn_orders[last'.id].status \in {"Matched", "Refunded"})
                 => /\ last'.res # "Ok"
                    /\ last'.msgs = <<>>
                    /\ paid' = paid
        /\ deployed = "fusion"
           => \A id \in MainIds :
                 paid'[id].maker > 0
                 => /\ id \in DOMAIN fn_orders'
                    /\ fn_orders'[id].status = "Claimed" ]_vars

\* The resolver of a Claimed order has just had transfer_to_maker pay the maker.
C38_Witness ==
    /\ deployed = "fusion"
    /\ last.op = "transfer_to_maker"
    /\ last.res = "Ok"
    /\ last.id \in DOMAIN fn_orders
    /\ fn_orders[last.id].status = "Claimed"
    /\ last.sender = fn_orders[last.id].resolver
    /\ paid[last.id].maker = fn_orders[last.id].amount


\* C39: in the Cosmos contract execute_fusion_order succeeds when the funds sent in the
\* native denom exceed amount + resolver_fee + safety_deposit; the stored
\* safety_deposit is floor(amount * bps / 10000), not the surplus, and the transfers of
\* a later claim or refund of that order total exactly
\* amount + resolver_fee + safety_deposit, so the surplus is never disbursed.
C39_SurplusNeverDisbursed ==
    deployed = "cosmos"
    => /\ last.op = "execute_fusion_order" => last.res # "InsufficientSafetyDeposit"
       /\ \A order_hash \in PairIds, a \in CwOrdersArgs, funds \in SurplusFunds :
             (/\ CwReachesFundsCheck("alice", order_hash, a)
              /\ funds > a.amount + a.resolver_fee
                            + (a.amount * cw_config.min_safety_deposit_bps) \div 10000)
             => /\ CwExecuteResult("alice", order_hash, a.hashlock, a.amount,
                                   a.resolver_fee, funds) = "Ok"
                /\ CwNewOrder("alice", a.hashlock, a.maker, a.amount, a.resolver_fee,
                              a.timeout_seconds).safety_deposit
                      # funds - a.amount - a.resolver_fee
       /\ \A id \in DOMAIN cw_orders :
             /\ cw_orders[id].safety_deposit
                   = (cw_orders[id].amount * cw_config.min_safety_deposit_bps) \div 10000
             /\ cw_orders[id].status \in {"Claimed", "Refunded"}
                   => paid[id].total = cw_orders[id].amount + cw_orders[id].resolver_fee
                                          + cw_orders[id].safety_deposit
             /\ \A funds \in SurplusFunds : paid[id].total < funds

\* Both orders were created with surplus funds; one has been claimed and the other has
\* just been refunded, each for 30 + 5 + 1.
C39_Witness ==
    /\ deployed = "cosmos"
    /\ last.op = "refund_order"
    /\ last.res = "Ok"
    /\ cw_orders[last.id].safety_deposit = 1
    /\ paid[last.id].total = 36
    /\ \E id \in DOMAIN cw_orders :
          /\ cw_orders[id].status = "Claimed"
          /\ paid[id].total = 36


\* C40: in the Cosmos contract the authorization of a resolver is checked only when an
\* order is created: a resolver that is no longer in the registry can still claim the
\* order it created before the timeout and refund it at or after the timeout, while
\* every execute_fusion_order it sends fails with UnauthorizedResolver, and only
\* those of senders outside the registry do.
C40_AuthorizationOnlyAtCreation ==
    deployed = "cosmos"
    => /\ \A id \in DOMAIN cw_orders :
             (/\ cw_orders[id].resolver \notin cw_resolvers
              /\ cw_orders[id].status = "Matched")
             => /\ block_time < cw_orders[id].timeout
                   => \A preimage \in CwPreimages :
                         validate_preimage(preimage, cw_orders[id].hashlock)
                         => CwClaimResult(cw_orders[id].resolver, id, preimage) = "Ok"
                /\ block_time >= cw_orders[id].timeout
                   => CwRefundResult(cw_orders[id].resolver, id) = "Ok"
       /\ \A sender \in Addrs, order_hash \in PairIds, a \in CwExecArgs :
             CwExecuteResult(sender, order_hash, a.hashlock, a.amount, a.resolver_fee,
                             U128_MAX)
                   = "UnauthorizedResolver"
             <=> sender \notin cw_resolvers

\* bob, removed from the registry after creating the order, has just claimed it.
C40_Witness ==
    /\ deployed = "cosmos"
    /\ last.op = "claim_fusion_order"
    /\ last.res = "Ok"
    /\ last.sender = "bob"
    /\ "bob" \notin cw_resolvers
    /\ cw_orders[last.id].resolver = "bob"
    /\ cw_orders[last.id].status = "Claimed"
    /\ CwExecuteResult("bob", "o2", HelloHash, 30, 5, U128_MAX) = "UnauthorizedResolver"

============================================================================
